---- MODULE Spec2Model ----
(***************************************************************************)
(* Verification model of babel's plural-rule engine (babel/plural.py), PO  *)
(* codec (babel/messages/pofile.py), MO codec (babel/messages/mofile.py),  *)
(* locale data loader (babel/localedata.py), translation checkers          *)
(* (babel/messages/checkers.py) and locale identifiers (babel/core.py).    *)
(*                                                                         *)
(* Python values are tagged records: PyNone, PyBool(b), PyStr(s),          *)
(* PyExc(name), ...  A Python str is a sequence of one-character strings,  *)
(* a Python bytes object a sequence of integers 0..255.                    *)
(***************************************************************************)
EXTENDS Integers, Sequences, FiniteSets, TLC

VARIABLES
    pl,     \* plural engine: the current call and its outcome
    ps,     \* PO string functions: input string, width and the results
    pf,     \* PO file codec: catalog, text and the results of read/write
    mo,     \* MO codec: catalog, written file and the catalog read back
    ld,     \* locale data: heap of dictionaries, cache, lock and callers
    ck,     \* checkers: the two format strings and the outcome
    lc      \* locale identifiers: identifier, parsed tuple, Locale, identifier rebuilt

vars == <<pl, ps, pf, mo, ld, ck, lc>>

(***************************************************************************)
(* Python values                                                           *)
(***************************************************************************)
PyNone == [t |-> "None"]
PyBool(b) == [t |-> "bool", v |-> b]
PyInt(i) == [t |-> "int", v |-> i]
PyStr(s) == [t |-> "str", v |-> s]
PyTuple(s) == [t |-> "tuple", v |-> s]
PyExc(name) == [t |-> "exc", v |-> name]

IsExc(x) == x.t = "exc"

Idle == [pc |-> "idle"]

(***************************************************************************)
(* Bounds                                                                  *)
(***************************************************************************)
MaxStrLen == 3
MaxWidth == 2

(***************************************************************************)
(* str methods used by pofile.py                                           *)
(***************************************************************************)
BSL == "\\"
QUOTE == "\""
NL == "\n"
TAB == "\t"
CR == "\r"

\* The characters the model's strings are built from.
Chars == {"a", "n", " ", NL, TAB, QUOTE, BSL}

\* str.isspace of one character (the \s class of re as well).
Whitespace == {" ", NL, TAB, CR}

RECURSIVE Concat(_)
\* ''.join(seq_of_strings)
Concat(ss) == IF ss = <<>> THEN <<>> ELSE Head(ss) \o Concat(Tail(ss))

RECURSIVE Replace(_, _, _)
\* str.replace(old, new) for a non-empty old: leftmost, non-overlapping.
Replace(s, old, new) ==
    IF Len(s) < Len(old) THEN s
    ELSE IF SubSeq(s, 1, Len(old)) = old
         THEN new \o Replace(SubSeq(s, Len(old) + 1, Len(s)), old, new)
         ELSE <<Head(s)>> \o Replace(Tail(s), old, new)

RECURSIVE LStrip(_, _)
LStrip(s, cs) == IF s # <<>> /\ Head(s) \in cs THEN LStrip(Tail(s), cs) ELSE s

RECURSIVE RStrip(_, _)
RStrip(s, cs) ==
    IF s # <<>> /\ s[Len(s)] \in cs THEN RStrip(SubSeq(s, 1, Len(s) - 1), cs) ELSE s

\* str.strip(chars) / str.strip()
Strip(s, cs) == RStrip(LStrip(s, cs), cs)

RECURSIVE SplitOn(_, _, _)
\* str.split(sep) for a one-character sep; cur is the piece being read.
SplitOn(s, sep, cur) ==
    IF s = <<>> THEN <<cur>>
    ELSE IF Head(s) = sep THEN <<cur>> \o SplitOn(Tail(s), sep, <<>>)
         ELSE SplitOn(Tail(s), sep, Append(cur, Head(s)))

RECURSIVE SplitLines(_, _, _)
\* str.splitlines(keepends): a line ends at "\n", "\r" or "\r\n".
SplitLines(s, keepends, cur) ==
    IF s = <<>> THEN (IF cur = <<>> THEN <<>> ELSE <<cur>>)
    ELSE IF Head(s) = CR /\ Len(s) > 1 /\ s[2] = NL
         THEN <<IF keepends THEN cur \o <<CR, NL>> ELSE cur>>
              \o SplitLines(Tail(Tail(s)), keepends, <<>>)
    ELSE IF Head(s) \in {NL, CR}
         THEN <<IF keepends THEN Append(cur, Head(s)) ELSE cur>>
              \o SplitLines(Tail(s), keepends, <<>>)
    ELSE SplitLines(Tail(s), keepends, Append(cur, Head(s)))

RECURSIVE WordSepSplit(_, _, _)
\* WORD_SEP.split(line): the pieces between the separators and, the pattern
\* being one capturing group, the separators themselves.  Over Chars, which
\* holds no "-", only the first alternative (\s+) of WORD_SEP can match.
\* cur is the piece being read, insep says whether it is a separator.
WordSepSplit(s, cur, insep) ==
    IF s = <<>> THEN (IF insep THEN <<cur, <<>>>> ELSE <<cur>>)
    ELSE IF Head(s) \in Whitespace
         THEN IF insep THEN WordSepSplit(Tail(s), Append(cur, Head(s)), TRUE)
              ELSE <<cur>> \o WordSepSplit(Tail(s), <<Head(s)>>, TRUE)
         ELSE IF insep THEN <<cur>> \o WordSepSplit(Tail(s), <<Head(s)>>, FALSE)
              ELSE WordSepSplit(Tail(s), Append(cur, Head(s)), FALSE)

(***************************************************************************)
(* plural.py                                                               *)
(***************************************************************************)
MaxRules == 2
MaxNum == 11
MaxTenths == 45
MaxBound == 4
MaxFrac == 2

_plural_tags == <<"zero", "one", "two", "few", "many", "other">>
_fallback_tag == "other"

SeqRange(s) == {s[k] : k \in 1..Len(s)}

\* Rule expressions the inputs are drawn from, as their UTS #35 text.
ExprNIs1 == <<"n", " ", "i", "s", " ", "1">>
ExprNIs2 == <<"n", " ", "i", "s", " ", "2">>
ExprNIn1_11 == <<"n", " ", "i", "n", " ", "1", ",", "1", "1">>
Exprs == <<ExprNIn1_11, ExprNIs1, ExprNIs2>>

\* Tags the inputs are drawn from: the canonical ones and an unknown one.
InputTags == <<"few", "many", "one", "other", "plural", "two", "zero">>

RECURSIVE IndexOf(_, _)
\* The position of x in the sequence s (x is in s).
IndexOf(s, x) == IF Head(s) = x THEN 1 ELSE 1 + IndexOf(Tail(s), x)

\* Python's < on (tag, expr) tuples of strings: InputTags and Exprs list
\* their elements in str order.
PairLess(p, q) ==
    \/ IndexOf(InputTags, p[1]) < IndexOf(InputTags, q[1])
    \/ p[1] = q[1] /\ IndexOf(Exprs, p[2]) < IndexOf(Exprs, q[2])

RECURSIVE Insert(_, _)
Insert(sorted, p) ==
    IF sorted = <<>> THEN <<p>>
    ELSE IF PairLess(p, Head(sorted)) THEN <<p>> \o sorted
         ELSE <<Head(sorted)>> \o Insert(Tail(sorted), p)

RECURSIVE Sorted(_)
\* sorted(rules): a stable sort, here by insertion from the right.
Sorted(rules) ==
    IF rules = <<>> THEN <<>>
    ELSE Insert(Sorted(SubSeq(rules, 1, Len(rules) - 1)), rules[Len(rules)])

\* tokenize_rule is defined nowhere in the package: evaluating the name in
\* _Parser.__init__ raises NameError before any token is read.
tokenize_rule(string) == PyExc("NameError")

\* _Parser(string): the parser object with its ast, or the exception raised.
_Parser(string) ==
    LET tokens == tokenize_rule(string)
    IN IF IsExc(tokens) THEN tokens
       ELSE IF tokens.v = <<>> THEN [t |-> "_Parser", ast |-> PyNone]
       ELSE PyExc("AttributeError")   \* self.condition is not defined either

RECURSIVE PluralRuleInitLoop(_, _, _)
\* The for loop of PluralRule.__init__ over sorted(rules).
PluralRuleInitLoop(todo, found, abstract) ==
    IF todo = <<>>
    THEN [t |-> "PluralRule", abstract |-> abstract, has_func |-> FALSE, _func |-> PyNone]
    ELSE LET key == Head(todo)[1]
             expr == Head(todo)[2]
         IN IF key \notin SeqRange(_plural_tags) THEN PyExc("ValueError")
            ELSE IF key \in found THEN PyExc("ValueError")
            ELSE LET parser == _Parser(expr)
                 IN IF IsExc(parser) THEN parser
                    ELSE PluralRuleInitLoop(Tail(todo), found \cup {key},
                             IF parser.ast # PyNone
                             THEN Append(abstract, <<key, parser.ast>>)
                             ELSE abstract)

\* PluralRule(rules): the object constructed, or the exception raised.
PluralRule(rules) == PluralRuleInitLoop(Sorted(rules), {}, <<>>)

\* The bodies of these functions are `pass`: each returns None.
extract_operands(source) == PyNone
to_javascript(rule) == PyNone
to_python(rule) == PyNone
to_gettext(rule) == PyNone
in_range_list(num, range_list) == PyNone
within_range_list(num, range_list) == PyNone

\* PluralRule.__call__: the object after the call and the value returned or
\* the exception raised.  Calling None raises TypeError.
PluralRuleCall(self, n) ==
    LET self1 == IF ~self.has_func
                 THEN [self EXCEPT !.has_func = TRUE, !._func = to_python(self)]
                 ELSE self
    IN [obj |-> self1,
        ret |-> IF self1._func = PyNone THEN PyExc("TypeError")
                ELSE PyExc("Unreachable")]

\* Inputs.
Pairs == {<<InputTags[a], Exprs[b]>> : a \in 1..Len(InputTags), b \in 1..Len(Exprs)}

RECURSIVE RuleListsUpTo(_)
RuleListsUpTo(n) ==
    IF n = 0 THEN {<<>>}
    ELSE LET shorter == RuleListsUpTo(n - 1)
         IN shorter \cup {Append(r, p) : r \in {x \in shorter : Len(x) = n - 1}, p \in Pairs}

RuleLists == RuleListsUpTo(MaxRules)

\* Source numbers: an int, or a decimal given by its sign, integer part and
\* fraction digits (1.20 is [neg |-> FALSE, int |-> 1, frac |-> <<2, 0>>]).
RECURSIVE DigitSeqsUpTo(_)
DigitSeqsUpTo(n) ==
    IF n = 0 THEN {<<>>}
    ELSE LET shorter == DigitSeqsUpTo(n - 1)
         IN shorter \cup {Append(s, d) : s \in {x \in shorter : Len(x) = n - 1}, d \in {0, 1, 2}}

Sources ==
    [kind : {"int"}, neg : BOOLEAN, int : 0..MaxNum, frac : {<<>>}]
    \cup [kind : {"decimal"}, neg : BOOLEAN, int : 0..2, frac : DigitSeqsUpTo(MaxFrac) \ {<<>>}]

\* Range lists: one or two (lo, hi) pairs of integers.
Ranges == {<<lo, hi>> : lo \in 0..MaxBound, hi \in 0..MaxBound}
RangeLists == {<<r>> : r \in Ranges} \cup {<<<<1, 1>>, r>> : r \in Ranges}

PlStart == [pc |-> "start", op |-> "none", rules |-> <<>>, num |-> PyNone,
            ranges |-> <<>>, obj |-> PyNone, ret |-> PyNone]

PlInit == pl = PlStart /\ ps = Idle /\ pf = Idle /\ mo = Idle /\ ld = Idle /\ ck = Idle /\ lc = Idle

\* rule = PluralRule(rules)
Construct ==
    /\ pl.pc = "start"
    /\ \E rules \in RuleLists :
          pl' = [pl EXCEPT !.pc = "constructed", !.op = "PluralRule",
                           !.rules = rules, !.obj = PluralRule(rules)]
    /\ UNCHANGED <<ps, pf, mo, ld, ck, lc>>

\* rule(n) on a constructed rule
Call ==
    /\ pl.pc = "constructed"
    /\ ~IsExc(pl.obj)
    /\ \E n \in 0..MaxNum :
          LET r == PluralRuleCall(pl.obj, n)
          IN pl' = [pl EXCEPT !.pc = "called", !.op = "__call__", !.num = PyInt(n),
                              !.obj = r.obj, !.ret = r.ret]
    /\ UNCHANGED <<ps, pf, mo, ld, ck, lc>>

\* to_python(rules)(n): the function returned is then called
ToPython ==
    /\ pl.pc = "start"
    /\ \E rules \in RuleLists, n \in 0..MaxNum :
          LET f == to_python(rules)
          IN pl' = [pl EXCEPT !.pc = "done", !.op = "to_python", !.rules = rules,
                              !.num = PyInt(n), !.obj = f,
                              !.ret = IF f = PyNone THEN PyExc("TypeError")
                                      ELSE PyExc("Unreachable")]
    /\ UNCHANGED <<ps, pf, mo, ld, ck, lc>>

\* to_gettext(rules)
ToGettext ==
    /\ pl.pc = "start"
    /\ \E rules \in RuleLists :
          pl' = [pl EXCEPT !.pc = "done", !.op = "to_gettext", !.rules = rules,
                           !.ret = to_gettext(rules)]
    /\ UNCHANGED <<ps, pf, mo, ld, ck, lc>>

\* in_range_list(num, range_list); num is given in tenths
InRangeList ==
    /\ pl.pc = "start"
    /\ \E num \in 0..MaxTenths, rl \in RangeLists :
          pl' = [pl EXCEPT !.pc = "done", !.op = "in_range_list", !.num = PyInt(num),
                           !.ranges = rl, !.ret = in_range_list(num, rl)]
    /\ UNCHANGED <<ps, pf, mo, ld, ck, lc>>

\* within_range_list(num, range_list); num is given in tenths
WithinRangeList ==
    /\ pl.pc = "start"
    /\ \E num \in 0..MaxTenths, rl \in RangeLists :
          pl' = [pl EXCEPT !.pc = "done", !.op = "within_range_list", !.num = PyInt(num),
                           !.ranges = rl, !.ret = within_range_list(num, rl)]
    /\ UNCHANGED <<ps, pf, mo, ld, ck, lc>>

\* extract_operands(source)
ExtractOperands ==
    /\ pl.pc = "start"
    /\ \E source \in Sources :
          pl' = [pl EXCEPT !.pc = "done", !.op = "extract_operands", !.num = source,
                           !.ret = extract_operands(source)]
    /\ UNCHANGED <<ps, pf, mo, ld, ck, lc>>

PlNext ==
    Construct \/ Call \/ ToPython \/ ToGettext \/ InRangeList \/ WithinRangeList
    \/ ExtractOperands

SpecPlural == PlInit /\ [][PlNext]_vars

(***************************************************************************)
(* Properties of the plural-rule engine.  The definitions below state what *)
(* the documentation asks for; none of them models code.                   *)
(***************************************************************************)
\* The meaning of the rule expressions in Exprs at a non-negative integer n.
Holds(expr, n) ==
    CASE expr = ExprNIs1 -> n = 1
      [] expr = ExprNIs2 -> n = 2
      [] expr = ExprNIn1_11 -> n \in {1, 11}

\* The tags are canonical and pairwise distinct.
ValidRules(rules) ==
    /\ \A k \in 1..Len(rules) : rules[k][1] \in SeqRange(_plural_tags)
    /\ \A j, k \in 1..Len(rules) : j # k => rules[j][1] # rules[k][1]

\* The tags of rules whose condition holds at n.
TrueTags(rules, n) == {rules[k][1] : k \in {j \in 1..Len(rules) : Holds(rules[j][2], n)}}

\* The first tag, in the order of tag names the constructor sorts the rules
\* into, whose condition holds at n; 'other' when there is none.
ExpectedTag(rules, n) ==
    IF TrueTags(rules, n) = {} THEN _fallback_tag
    ELSE CHOOSE tag \in TrueTags(rules, n) :
             \A u \in TrueTags(rules, n) : IndexOf(InputTags, tag) <= IndexOf(InputTags, u)

\* C1: calling a PluralRule returns exactly one tag, that of the first rule
\* (in a fixed category order, whatever the order the pairs were given in)
\* whose condition is true, and 'other' when no condition is true.
C1_CallReturnsFirstTrueTag ==
    pl.op = "__call__" => pl.ret = PyStr(ExpectedTag(pl.rules, pl.num.v))

\* C2: construction fails with a validation error (ValueError) whenever a tag
\* is not canonical or occurs twice, and succeeds for every rule set whose
\* tags are canonical and pairwise distinct.
C2_ConstructionValidatesTags ==
    pl.op = "PluralRule" =>
        IF ValidRules(pl.rules) THEN pl.obj.t = "PluralRule"
        ELSE pl.obj = PyExc("ValueError")

\* num (in tenths) lies in one of the inclusive ranges.
InSomeRange(num, range_list) ==
    \E k \in 1..Len(range_list) :
        range_list[k][1] * 10 <= num /\ num <= range_list[k][2] * 10

\* C3: in_range_list is true exactly when num has no fractional part and lies
\* in some inclusive (lo, hi) range; within_range_list is true exactly when
\* num lies in some range, integral or not.
C3_RangeListMembership ==
    /\ pl.op = "in_range_list" =>
           pl.ret = PyBool(pl.num.v % 10 = 0 /\ InSomeRange(pl.num.v, pl.ranges))
    /\ pl.op = "within_range_list" =>
           pl.ret = PyBool(InSomeRange(pl.num.v, pl.ranges))

RECURSIVE DigitsValue(_)
\* The integer a sequence of decimal digits writes.
DigitsValue(ds) ==
    IF ds = <<>> THEN 0 ELSE DigitsValue(SubSeq(ds, 1, Len(ds) - 1)) * 10 + ds[Len(ds)]

\* The operands (n, i, v, w, f, t, c, e) of a source number; n is given by
\* its integer part and fraction digits.
ExpectedOperands(source) ==
    LET stripped == RStrip(source.frac, {0})
    IN <<[int |-> source.int, frac |-> source.frac], source.int,
         Len(source.frac), Len(stripped),
         DigitsValue(source.frac), DigitsValue(stripped), 0, 0>>

\* C4: extract_operands returns (n, i, v, w, f, t, c, e): for an integer
\* v = w = f = t = 0, n is the absolute value and i = n; for a decimal v and f
\* count and read the fraction digits with trailing zeros, w and t without
\* (1.20 gives v=2, w=1, f=20, t=2); c and e are 0.
C4_ExtractOperands ==
    pl.op = "extract_operands" => pl.ret = PyTuple(ExpectedOperands(pl.num))

\* The tags of a rule set and the fallback, in category order, and the index
\* of a tag among them.
UsedTags(rules) == {rules[k][1] : k \in 1..Len(rules)} \cup {_fallback_tag}
PluralIndex(rules, tag) ==
    Cardinality({u \in UsedTags(rules) :
                    IndexOf(_plural_tags, u) < IndexOf(_plural_tags, tag)})

RECURSIVE TernaryValue(_, _, _)
\* The value at n of a chain of ternaries <<condition, index>> ending in a
\* default index.
TernaryValue(chain, default, n) ==
    IF chain = <<>> THEN default
    ELSE IF Holds(Head(chain)[1], n) THEN Head(chain)[2]
         ELSE TernaryValue(Tail(chain), default, n)

\* C5: for a valid rule set and every non-negative integer n, the gettext
\* expression to_gettext produces evaluates at n to the plural index of the
\* tag the evaluator returns for n, and nplurals is the number of tags used.
C5_GettextAgreesWithEvaluator ==
    (pl.op = "to_gettext" /\ ValidRules(pl.rules)) =>
        /\ pl.ret.t = "gettext"
        /\ pl.ret.nplurals = Cardinality(UsedTags(pl.rules))
        /\ \A n \in 0..MaxNum :
               TernaryValue(pl.ret.plural, pl.ret.default, n)
                   = PluralIndex(pl.rules, ExpectedTag(pl.rules, n))

(***************************************************************************)
(* pofile.py: escape, unescape, normalize, denormalize                     *)
(***************************************************************************)
escape(string) ==
    <<QUOTE>>
    \o Replace(Replace(Replace(Replace(Replace(string,
           <<BSL>>, <<BSL, BSL>>),
           <<TAB>>, <<BSL, "t">>),
           <<CR>>, <<BSL, "r">>),
           <<NL>>, <<BSL, "n">>),
           <<QUOTE>>, <<BSL, QUOTE>>)
    \o <<QUOTE>>

\* The patterns are the raw strings r'\\n', r'\\"' and r'\\': each starts
\* with two backslashes.
unescape(string) ==
    Replace(Replace(Replace(Strip(string, {QUOTE}),
        <<BSL, BSL, "n">>, <<NL>>),
        <<BSL, BSL, QUOTE>>, <<QUOTE>>),
        <<BSL, BSL>>, <<BSL>>)

RECURSIVE StripEach(_)
\* [line.strip().strip('"') for line in lines]
StripEach(lines) ==
    IF lines = <<>> THEN <<>>
    ELSE <<Strip(Strip(Head(lines), Whitespace), {QUOTE})>> \o StripEach(Tail(lines))

denormalize(string) ==
    unescape(Concat(StripEach(SplitOn(Strip(string, Whitespace), NL, <<>>))))

RECURSIVE WrapChunks(_, _, _, _)
\* The inner loop of normalize over the chunks of one over-long line.
WrapChunks(prefix, todo, chunks, width) ==
    IF todo = <<>>
    THEN (IF chunks # <<>> THEN <<prefix \o Concat(chunks)>> ELSE <<>>)
    ELSE IF chunks # <<>> /\ Len(prefix \o Concat(chunks) \o Head(todo)) > width
         THEN <<prefix \o Concat(chunks)>>
              \o WrapChunks(prefix, Tail(todo), <<Head(todo)>>, width)
         ELSE WrapChunks(prefix, Tail(todo), Append(chunks, Head(todo)), width)

RECURSIVE WrapLines(_, _, _)
\* The outer loop of normalize: the list `lines`.
WrapLines(prefix, todo, width) ==
    IF todo = <<>> THEN <<>>
    ELSE (IF Len(prefix \o Head(todo)) > width
          THEN WrapChunks(prefix, WordSepSplit(Head(todo), <<>>, FALSE), <<>>, width)
          ELSE <<prefix \o Head(todo)>>)
         \o WrapLines(prefix, Tail(todo), width)

RECURSIVE QuoteLines(_)
\* ''.join('\n"%s"' % line for line in lines)
QuoteLines(lines) ==
    IF lines = <<>> THEN <<>>
    ELSE <<NL, QUOTE>> \o Head(lines) \o <<QUOTE>> \o QuoteLines(Tail(lines))

\* width = 0 stands for width=None as well: both fail `width and width > 0`.
normalize(string, prefix, width) ==
    LET wrapped == IF width > 0
                   THEN Concat(WrapLines(prefix, SplitLines(string, TRUE, <<>>), width))
                   ELSE string
    IN <<QUOTE, QUOTE>> \o QuoteLines(SplitLines(escape(wrapped), FALSE, <<>>))

(***************************************************************************)
(* PO string functions: one call of each on a chosen string                *)
(***************************************************************************)
RECURSIVE StringsUpTo(_)
StringsUpTo(n) ==
    IF n = 0 THEN {<<>>}
    ELSE LET shorter == StringsUpTo(n - 1)
         IN shorter \cup {Append(s, c) : s \in {x \in shorter : Len(x) = n - 1}, c \in Chars}

PsInit ==
    \E s \in StringsUpTo(MaxStrLen), w \in 0..MaxWidth :
        /\ ps = [pc |-> "start", string |-> s, width |-> w,
                 escaped |-> PyNone, unescaped |-> PyNone,
                 normalized |-> PyNone, denormalized |-> PyNone]
        /\ pl = Idle /\ pf = Idle /\ mo = Idle /\ ld = Idle /\ ck = Idle /\ lc = Idle

Escape ==
    /\ ps.pc = "start"
    /\ ps' = [ps EXCEPT !.pc = "escaped", !.escaped = PyStr(escape(ps.string))]
    /\ UNCHANGED <<pl, pf, mo, ld, ck, lc>>

Unescape ==
    /\ ps.pc = "escaped"
    /\ ps' = [ps EXCEPT !.pc = "unescaped",
                        !.unescaped = PyStr(unescape(ps.escaped.v))]
    /\ UNCHANGED <<pl, pf, mo, ld, ck, lc>>

Normalize ==
    /\ ps.pc = "start"
    /\ ps' = [ps EXCEPT !.pc = "normalized",
                        !.normalized = PyStr(normalize(ps.string, <<>>, ps.width))]
    /\ UNCHANGED <<pl, pf, mo, ld, ck, lc>>

Denormalize ==
    /\ ps.pc = "normalized"
    /\ ps' = [ps EXCEPT !.pc = "denormalized",
                        !.denormalized = PyStr(denormalize(ps.normalized.v))]
    /\ UNCHANGED <<pl, pf, mo, ld, ck, lc>>

PsNext == Escape \/ Unescape \/ Normalize \/ Denormalize

SpecPoString == PsInit /\ [][PsNext]_vars

\* C8: unescape(escape(s)) = s for every string over ordinary characters and
\* newline, tab, carriage return, double quote and backslash.
C8_EscapeRoundTrip ==
    ps.pc = "unescaped" => ps.unescaped = PyStr(ps.string)

\* C7: denormalize(normalize(s, width=w)) = s for every string s and every
\* wrap width w, width=None included.
C7_NormalizeRoundTrip ==
    ps.pc = "denormalized" => ps.denormalized = PyStr(ps.string)

(***************************************************************************)
(* babel.messages.catalog: Catalog and Message, as the codecs use them.    *)
(* In this part a str is a sequence of code points, bytes a sequence of    *)
(* integers 0..255.                                                        *)
(***************************************************************************)
MaxMessages == 2

\* A message: id is a PyStr, or a PyTuple (singular, plural) of strs; string
\* is a PyStr or a PyTuple of strs; context is PyNone or a PyStr.
Message(id, string, context, flags) ==
    [id |-> id, string |-> string, context |-> context, flags |-> flags]

\* Message.fuzzy
Fuzzy(message) == "fuzzy" \in message.flags

\* The singular id of a message: the key the catalog files it under.
SingularId(message) ==
    IF message.id.t = "tuple" THEN message.id.v[1] ELSE message.id.v

RECURSIVE SeqLess(_, _)
\* Python's < on two strs (or bytes): lexicographic on the code points.
SeqLess(a, b) ==
    IF b = <<>> THEN FALSE
    ELSE IF a = <<>> THEN TRUE
    ELSE IF Head(a) # Head(b) THEN Head(a) < Head(b)
    ELSE SeqLess(Tail(a), Tail(b))

\* Message.__lt__: by id, then by context ('' for none).
MessageLess(m1, m2) ==
    LET c1 == IF m1.context = PyNone THEN <<>> ELSE m1.context.v
        c2 == IF m2.context = PyNone THEN <<>> ELSE m2.context.v
    IN \/ SeqLess(SingularId(m1), SingularId(m2))
       \/ SingularId(m1) = SingularId(m2) /\ SeqLess(c1, c2)

RECURSIVE InsertMessage(_, _)
InsertMessage(sorted, m) ==
    IF sorted = <<>> THEN <<m>>
    ELSE IF MessageLess(m, Head(sorted)) THEN <<m>> \o sorted
         ELSE <<Head(sorted)>> \o InsertMessage(Tail(sorted), m)

RECURSIVE SortMessages(_)
\* list.sort() of messages: stable.
SortMessages(ms) ==
    IF ms = <<>> THEN <<>>
    ELSE InsertMessage(SortMessages(SubSeq(ms, 1, Len(ms) - 1)), ms[Len(ms)])

\* Catalog(): no messages, no metadata, the default header comment.
NewCatalog ==
    [t |-> "Catalog", messages |-> <<>>, metadata |-> <<>>,
     header_comment |-> <<"#", " ", "a">>]

SameKey(m1, m2) == m1.context = m2.context /\ SingularId(m1) = SingularId(m2)

\* catalog.add(id, string, context=context): a message with the same
\* (context, id) key is replaced in place, a new one is appended.
CatalogAdd(catalog, m) ==
    IF \E k \in 1..Len(catalog.messages) : SameKey(catalog.messages[k], m)
    THEN [catalog EXCEPT !.messages =
             [k \in 1..Len(catalog.messages) |->
                 IF SameKey(catalog.messages[k], m) THEN m ELSE catalog.messages[k]]]
    ELSE [catalog EXCEPT !.messages = Append(catalog.messages, m)]

\* catalog.metadata[key] = value
SetMetadata(catalog, key, value) ==
    IF \E k \in 1..Len(catalog.metadata) : catalog.metadata[k][1] = key
    THEN [catalog EXCEPT !.metadata =
             [k \in 1..Len(catalog.metadata) |->
                 IF catalog.metadata[k][1] = key THEN <<key, value>>
                 ELSE catalog.metadata[k]]]
    ELSE [catalog EXCEPT !.metadata = Append(catalog.metadata, <<key, value>>)]

(***************************************************************************)
(* mofile.py: bytes, struct and str.encode / bytes.decode                  *)
(***************************************************************************)
\* 0x950412de and 0xde120495 do not fit TLC's integers: the magic numbers
\* are given by the four bytes struct.pack('<I', magic) writes.
LE_MAGIC == <<222, 18, 4, 149>>
BE_MAGIC == <<149, 4, 18, 222>>

\* Values of 2^24 and above are represented by 2^24: every buffer of the
\* model is shorter, and read_mo only adds such values and compares them
\* with the buffer length.
U32Cap == 16777216

\* struct.pack of one 32-bit field in the given byte order
Pack32(x, order) ==
    LET le == <<x % 256, (x \div 256) % 256, (x \div 65536) % 256, (x \div 16777216) % 256>>
    IN IF order = "little" THEN le ELSE <<le[4], le[3], le[2], le[1]>>

\* struct.unpack of one 32-bit unsigned field
Unpack32(b, order) ==
    LET le == IF order = "little" THEN b ELSE <<b[4], b[3], b[2], b[1]>>
    IN IF le[4] > 0 THEN U32Cap
       ELSE le[1] + 256 * le[2] + 65536 * le[3]

RECURSIVE PackAll(_, _)
\* array.array("i", values).tobytes() / struct.pack of several fields
PackAll(values, order) ==
    IF values = <<>> THEN <<>>
    ELSE Pack32(Head(values), order) \o PackAll(Tail(values), order)

\* buf[a:b] for 0 <= a and any b: Python clips a slice to the buffer.
Slice(buf, a, b) ==
    LET hi == IF b > Len(buf) THEN Len(buf) ELSE b
    IN IF a >= hi THEN <<>> ELSE SubSeq(buf, a + 1, hi)

RECURSIVE Encode(_)
\* str.encode('utf-8'), for code points below 0x800
Encode(s) ==
    IF s = <<>> THEN <<>>
    ELSE (IF Head(s) < 128 THEN <<Head(s)>>
          ELSE <<192 + (Head(s) \div 64), 128 + (Head(s) % 64)>>)
         \o Encode(Tail(s))

RECURSIVE DecodeOk(_)
\* bytes.decode() succeeds: the bytes are well-formed UTF-8.  Lead bytes of
\* three- and four-byte sequences occur in no buffer of the model.
DecodeOk(b) ==
    IF b = <<>> THEN TRUE
    ELSE IF Head(b) < 128 THEN DecodeOk(Tail(b))
    ELSE IF Head(b) >= 194 /\ Head(b) < 224 /\ Len(b) >= 2 /\ b[2] >= 128 /\ b[2] < 192
         THEN DecodeOk(Tail(Tail(b)))
    ELSE FALSE

RECURSIVE DecodeChars(_)
DecodeChars(b) ==
    IF b = <<>> THEN <<>>
    ELSE IF Head(b) < 128 THEN <<Head(b)>> \o DecodeChars(Tail(b))
    ELSE <<(Head(b) - 192) * 64 + (b[2] - 128)>> \o DecodeChars(Tail(Tail(b)))

\* bytes.decode(): the str, or UnicodeDecodeError
Decode(b) == IF DecodeOk(b) THEN PyStr(DecodeChars(b)) ELSE PyExc("UnicodeDecodeError")

(***************************************************************************)
(* mofile.py: write_mo                                                     *)
(***************************************************************************)
\* '\x00'.join([m.encode('utf-8') for m in parts]): str.join of bytes
\* objects raises TypeError (the parts, an id or string tuple, are never
\* empty).
JoinEncoded(parts) == IF parts = <<>> THEN PyStr(<<>>) ELSE PyExc("TypeError")

\* The msgid / msgstr bytes of write_mo's loop for an id or a string.
EncodedField(x) == IF x.t = "tuple" THEN JoinEncoded(x.v) ELSE [t |-> "bytes", v |-> Encode(x.v)]

\* bool(message.string)
Truthy(x) == x.v # <<>>

RECURSIVE WriteLoop(_, _, _, _, _)
\* The for loop of write_mo: the blobs ids and strs and the list offsets, or
\* the exception raised.
WriteLoop(todo, use_fuzzy, ids, strs, offsets) ==
    IF todo = <<>> THEN [t |-> "blobs", ids |-> ids, strs |-> strs, offsets |-> offsets]
    ELSE LET message == Head(todo)
         IN IF ~Truthy(message.string) \/ (~use_fuzzy /\ Fuzzy(message))
            THEN WriteLoop(Tail(todo), use_fuzzy, ids, strs, offsets)
            ELSE LET msgid == EncodedField(message.id)
                     msgstr == EncodedField(message.string)
                 IN IF IsExc(msgid) THEN msgid
                    ELSE IF IsExc(msgstr) THEN msgstr
                    ELSE WriteLoop(Tail(todo), use_fuzzy,
                             ids \o msgid.v \o <<0>>, strs \o msgstr.v \o <<0>>,
                             Append(offsets,
                                 <<Len(ids), Len(msgid.v), Len(strs), Len(msgstr.v)>>))

RECURSIVE KOffsets(_, _)
KOffsets(offsets, keystart) ==
    IF offsets = <<>> THEN <<>>
    ELSE <<Head(offsets)[1] + keystart, Head(offsets)[2]>> \o KOffsets(Tail(offsets), keystart)

RECURSIVE VOffsets(_, _)
VOffsets(offsets, valuestart) ==
    IF offsets = <<>> THEN <<>>
    ELSE <<Head(offsets)[3] + valuestart, Head(offsets)[4]>>
         \o VOffsets(Tail(offsets), valuestart)

\* write_mo(fileobj, catalog, use_fuzzy): the bytes written to fileobj, or
\* the exception raised (nothing is written then).  byteorder is the native
\* byte order struct.pack('Iiiiiii') and array.array("i") write in.
write_mo(catalog, use_fuzzy, byteorder) ==
    LET messages == SortMessages(catalog.messages)
        loop == WriteLoop(messages, use_fuzzy, <<>>, <<>>, <<>>)
    IN IF IsExc(loop) THEN loop
       ELSE LET keystart == 28
                valuestart == keystart + Len(loop.ids)
                offsets == KOffsets(loop.offsets, keystart)
                           \o VOffsets(loop.offsets, valuestart)
            IN [t |-> "bytes",
                v |-> (IF byteorder = "little" THEN LE_MAGIC ELSE BE_MAGIC)
                      \o PackAll(<<0, Len(messages), 28, 28 + Len(offsets) * 4, 0, 0>>,
                                 byteorder)
                      \o PackAll(offsets, byteorder)
                      \o loop.ids \o loop.strs]

(***************************************************************************)
(* mofile.py: read_mo                                                      *)
(***************************************************************************)
\* Code points of the characters read_mo looks for.
ChNul == 0
ChEot == 4
ChTab == 9
ChNl == 10
ChCr == 13
ChSpace == 32
ChColon == 58
CpWhitespace == {ChSpace, ChNl, ChTab, ChCr}

\* '_plural'
SufPlural == <<95, 112, 108, 117, 114, 97, 108>>

RECURSIVE SplitFirst(_, _, _)
\* line.split(sep, 1) for a line that holds sep: <<before, after>>.
SplitFirst(s, sep, cur) ==
    IF Head(s) = sep THEN <<cur, Tail(s)>>
    ELSE SplitFirst(Tail(s), sep, Append(cur, Head(s)))

RECURSIVE ReadMetadata(_, _)
\* The loop over tmsg.split('\n') of the metadata entry.
ReadMetadata(lines, catalog) ==
    IF lines = <<>> THEN catalog
    ELSE IF ChColon \in SeqRange(Head(lines))
         THEN LET kv == SplitFirst(Head(lines), ChColon, <<>>)
              IN ReadMetadata(Tail(lines),
                     SetMetadata(catalog, Strip(kv[1], CpWhitespace),
                                 Strip(kv[2], CpWhitespace)))
         ELSE ReadMetadata(Tail(lines), catalog)

RECURSIVE StrsOf(_)
\* A list of strs as the values of a message's string tuple.
StrsOf(parts) == IF parts = <<>> THEN <<>> ELSE <<Head(parts)>> \o StrsOf(Tail(parts))

\* The `else` branch of the loop body: a regular message msg, tmsg.
ReadMessage(catalog, msg, tmsg) ==
    IF ChNul \in SeqRange(msg)
    THEN LET parts == SplitOn(msg, ChEot, <<>>)
         IN IF Len(parts) # 2 THEN PyExc("ValueError")
            ELSE LET msgid == parts[1]
                     msgctxt == parts[2]
                     tmsgs == SplitOn(tmsg, ChNul, <<>>)
                     c1 == CatalogAdd(catalog,
                               Message(PyStr(msgid), PyStr(tmsgs[1]), PyStr(msgctxt), {}))
                 IN IF Len(tmsgs) > 1
                    THEN CatalogAdd(c1,
                             Message(PyTuple(<<msgid, msgid \o SufPlural>>),
                                     PyTuple(StrsOf(tmsgs)), PyStr(msgctxt), {}))
                    ELSE c1
    ELSE CatalogAdd(catalog, Message(PyStr(msg), PyStr(tmsg), PyNone, {}))

RECURSIVE ReadLoop(_, _, _, _, _, _)
\* The loop `for i in range(msgcount)` with todo iterations left: the
\* catalog, or the exception raised.
ReadLoop(buf, order, todo, masteridx, transidx, catalog) ==
    IF todo = 0 THEN catalog
    ELSE LET mrec == Slice(buf, masteridx, masteridx + 8)
             trec == Slice(buf, transidx, transidx + 8)
         IN IF Len(mrec) # 8 \/ Len(trec) # 8 THEN PyExc("struct.error")
            ELSE LET mlen == Unpack32(SubSeq(mrec, 1, 4), order)
                     moff == Unpack32(SubSeq(mrec, 5, 8), order)
                     mend == moff + mlen
                     tlen == Unpack32(SubSeq(trec, 1, 4), order)
                     toff == Unpack32(SubSeq(trec, 5, 8), order)
                     tend == toff + tlen
                 IN IF mend > Len(buf) \/ tend > Len(buf) THEN PyExc("IOError")
                    ELSE LET msg == Decode(Slice(buf, moff, mend))
                             tmsg == Decode(Slice(buf, toff, tend))
                         IN IF IsExc(msg) THEN msg
                            ELSE IF IsExc(tmsg) THEN tmsg
                            ELSE LET c1 == IF mlen = 0
                                           THEN ReadMetadata(SplitOn(tmsg.v, ChNl, <<>>), catalog)
                                           ELSE ReadMessage(catalog, msg.v, tmsg.v)
                                 IN IF IsExc(c1) THEN c1
                                    ELSE ReadLoop(buf, order, todo - 1,
                                                  masteridx + 8, transidx + 8, c1)

\* read_mo without the check of the version field
read_mo_any_version(buf) ==
    IF Len(Slice(buf, 0, 4)) # 4 THEN PyExc("struct.error")
    ELSE LET magic == Slice(buf, 0, 4)
         IN IF magic # LE_MAGIC /\ magic # BE_MAGIC
            THEN PyExc("IOError")
            ELSE IF Len(Slice(buf, 4, 20)) # 16 THEN PyExc("struct.error")
            ELSE LET order == IF magic = LE_MAGIC THEN "little" ELSE "big"
                 IN ReadLoop(buf, order, Unpack32(Slice(buf, 8, 12), order),
                             Unpack32(Slice(buf, 12, 16), order),
                             Unpack32(Slice(buf, 16, 20), order), NewCatalog)

\* read_mo(fileobj) for a file holding buf: the catalog, or the exception.
read_mo(buf) ==
    IF Len(Slice(buf, 0, 4)) # 4 THEN PyExc("struct.error")
    ELSE LET magic == Slice(buf, 0, 4)
         IN IF magic # LE_MAGIC /\ magic # BE_MAGIC
            THEN PyExc("IOError")
            ELSE IF Len(Slice(buf, 4, 20)) # 16 THEN PyExc("struct.error")
            ELSE LET order == IF magic = LE_MAGIC THEN "little" ELSE "big"
                     version == Unpack32(Slice(buf, 4, 8), order)
                     msgcount == Unpack32(Slice(buf, 8, 12), order)
                     masteridx == Unpack32(Slice(buf, 12, 16), order)
                     transidx == Unpack32(Slice(buf, 16, 20), order)
                 IN IF version # 0 THEN PyExc("IOError")
                    ELSE ReadLoop(buf, order, msgcount, masteridx, transidx, NewCatalog)

(***************************************************************************)
(* MO codec: write a catalog, read the file back                           *)
(***************************************************************************)
\* The messages the catalogs are built from (strs as code points).
StrFoo == <<102, 111, 111>>
StrVoh == <<86, 111, 104>>
StrBar == <<98, 97, 114>>
StrBaz == <<98, 97, 122>>
StrBaaz == <<98, 97, 97, 122>>
StrFuz == <<102, 117, 122>>
StrFutz == <<70, 117, 116, 122>>
StrFizz == <<70, 105, 122, 122>>
StrCtx == <<99>>
StrEAcute == <<233>>
StrHeader == <<65, 58, 32, 98, 10>>

MsgHeader == Message(PyStr(<<>>), PyStr(StrHeader), PyNone, {})
MsgFoo == Message(PyStr(StrFoo), PyStr(StrVoh), PyNone, {})
MsgPlural == Message(PyTuple(<<StrBar, StrBaz>>), PyTuple(<<StrBar, StrBaaz>>), PyNone, {})
MsgFuzzy == Message(PyStr(StrFuz), PyStr(StrFutz), PyNone, {"fuzzy"})
MsgUntranslated == Message(PyStr(StrFizz), PyStr(<<>>), PyNone, {})
MsgContext == Message(PyStr(StrFoo), PyStr(StrEAcute), PyStr(StrCtx), {})
MessagePool == {MsgHeader, MsgFoo, MsgPlural, MsgFuzzy, MsgUntranslated, MsgContext}

RECURSIVE AddAll(_, _)
\* catalog.add for each message of ms in turn
AddAll(catalog, ms) ==
    IF ms = <<>> THEN catalog ELSE AddAll(CatalogAdd(catalog, Head(ms)), Tail(ms))

RECURSIVE MessageListsUpTo(_)
MessageListsUpTo(n) ==
    IF n = 0 THEN {<<>>}
    ELSE LET shorter == MessageListsUpTo(n - 1)
         IN shorter \cup {Append(ms, m) : ms \in {x \in shorter : Len(x) = n - 1},
                                            m \in MessagePool}

MoInit ==
    \E ms \in MessageListsUpTo(MaxMessages), use_fuzzy \in BOOLEAN,
       byteorder \in {"little", "big"} :
        /\ mo = [pc |-> "start", catalog |-> AddAll(NewCatalog, ms),
                 use_fuzzy |-> use_fuzzy, byteorder |-> byteorder,
                 file |-> PyNone, read |-> PyNone]
        /\ pl = Idle /\ ps = Idle /\ pf = Idle /\ ld = Idle /\ ck = Idle /\ lc = Idle

\* write_mo(fileobj, catalog, use_fuzzy)
WriteMo ==
    /\ mo.pc = "start"
    /\ mo' = [mo EXCEPT !.pc = "written",
                        !.file = write_mo(mo.catalog, mo.use_fuzzy, mo.byteorder)]
    /\ UNCHANGED <<pl, ps, pf, ld, ck, lc>>

\* read_mo(fileobj) on the file written
ReadMo ==
    /\ mo.pc = "written"
    /\ ~IsExc(mo.file)
    /\ mo' = [mo EXCEPT !.pc = "read", !.read = read_mo(mo.file.v)]
    /\ UNCHANGED <<pl, ps, pf, ld, ck, lc>>

MoNext == WriteMo \/ ReadMo

SpecMo == MoInit /\ [][MoNext]_vars

(***************************************************************************)
(* Properties of the MO codec.  The definitions below state what the       *)
(* format asks for; none of them models code.                              *)
(***************************************************************************)
RECURSIVE SelectWritten(_, _)
\* The messages of ms that belong in the file: translated and, unless
\* use_fuzzy, not fuzzy.
SelectWritten(ms, use_fuzzy) ==
    IF ms = <<>> THEN <<>>
    ELSE (IF Truthy(Head(ms).string) /\ (use_fuzzy \/ ~Fuzzy(Head(ms)))
          THEN <<Head(ms)>> ELSE <<>>)
         \o SelectWritten(Tail(ms), use_fuzzy)

\* The entries of the file, in the order of the tables.
Written(catalog, use_fuzzy) == SelectWritten(SortMessages(catalog.messages), use_fuzzy)

\* What a message is compared by: context, (singular) id and translations.
Entry(m) == <<m.context, SingularId(m), m.string>>
Entries(ms) == {Entry(ms[k]) : k \in {j \in 1..Len(ms) : SingularId(ms[j]) # <<>>}}

\* C9: read_mo of the bytes write_mo produces recovers an equivalent
\* catalog: the same ids, contexts, plural arities and translations.
C9_MoRoundTrip ==
    /\ mo.pc \in {"written", "read"} => mo.file.t = "bytes"
    /\ mo.pc = "read" =>
           /\ mo.read.t = "Catalog"
           /\ Entries(mo.read.messages) = Entries(Written(mo.catalog, mo.use_fuzzy))

RECURSIVE JoinNul(_)
\* The encoded strs of parts joined by NUL bytes.
JoinNul(parts) ==
    IF Len(parts) = 1 THEN Encode(parts[1])
    ELSE Encode(Head(parts)) \o <<0>> \o JoinNul(Tail(parts))

\* The encoded original and translation of a message.
KeyBytes(m) ==
    (IF m.context = PyNone THEN <<>> ELSE Encode(m.context.v) \o <<ChEot>>)
    \o (IF m.id.t = "tuple" THEN JoinNul(m.id.v) ELSE Encode(m.id.v))
ValueBytes(m) == IF m.string.t = "tuple" THEN JoinNul(m.string.v) ELSE Encode(m.string.v)

\* The 32-bit field at byte offset at of the file.
Field(file, at, order) == Unpack32(Slice(file, at, at + 4), order)

\* The (length, offset) entry at byte offset at designates, inside the file,
\* the bytes run followed by a NUL byte.
Designates(file, at, order, run) ==
    LET length == Field(file, at, order)
        offset == Field(file, at + 4, order)
    IN /\ offset + length < Len(file)
       /\ Slice(file, offset, offset + length) = run
       /\ file[offset + length + 1] = 0

\* C10: in every file write_mo produces the original table starts at byte
\* 28, the translation table right after it, each table has 8 bytes per
\* entry, and every entry's (length, offset) designates, inside the file,
\* the encoded string of its message followed by a NUL byte.
C10_MoTablesWellFormed ==
    (mo.pc = "written" /\ mo.file.t = "bytes") =>
        LET file == mo.file.v
            order == mo.byteorder
            w == Written(mo.catalog, mo.use_fuzzy)
            n == Len(w)
        IN /\ Field(file, 12, order) = 28
           /\ Field(file, 16, order) = 28 + 8 * n
           /\ Len(file) >= 28 + 16 * n
           /\ \A k \in 1..n :
                  /\ Designates(file, 28 + 8 * (k - 1), order, KeyBytes(w[k]))
                  /\ Designates(file, 28 + 8 * n + 8 * (k - 1), order, ValueBytes(w[k]))

\* The encoded id of a message and the blobs of ids and of translations of
\* the messages ms, each string followed by a NUL byte.
IdBytes(m) == IF m.id.t = "tuple" THEN JoinNul(m.id.v) ELSE Encode(m.id.v)
RECURSIVE IdsBlob(_)
IdsBlob(ms) == IF ms = <<>> THEN <<>> ELSE IdBytes(Head(ms)) \o <<0>> \o IdsBlob(Tail(ms))
RECURSIVE StrsBlob(_)
StrsBlob(ms) == IF ms = <<>> THEN <<>> ELSE ValueBytes(Head(ms)) \o <<0>> \o StrsBlob(Tail(ms))

\* C12: write_mo writes an entry for exactly the messages whose translation
\* is non-empty and which, unless use_fuzzy, are not fuzzy (so with
\* use_fuzzy the translated fuzzy messages are written), ordered by message
\* id: the file holds two tables of that many entries followed by the ids
\* and then the translations of these messages in that order.
C12_WritesSelectedSorted ==
    mo.pc = "written" =>
        LET w == Written(mo.catalog, mo.use_fuzzy)
        IN /\ mo.file.t = "bytes"
           /\ Len(mo.file.v) = 28 + 16 * Len(w) + Len(IdsBlob(w)) + Len(StrsBlob(w))
           /\ Slice(mo.file.v, 28 + 16 * Len(w), Len(mo.file.v)) = IdsBlob(w) \o StrsBlob(w)

\* The bytes of the two tables of a written file: what lies between the
\* header and the ids and translations of the messages written.
TableBytes(file, w) == Slice(file, 28, Len(file) - Len(IdsBlob(w)) - Len(StrsBlob(w)))

\* C30: in every file write_mo produces, the count field of the header is
\* the number of entries present in each of the two tables (8 bytes an
\* entry), also when the catalog holds untranslated or fuzzy messages that
\* are left out of the tables.
C30_CountMatchesTables ==
    (mo.pc = "written" /\ mo.file.t = "bytes") =>
        LET n == Field(mo.file.v, 8, mo.byteorder)
        IN Len(TableBytes(mo.file.v, Written(mo.catalog, mo.use_fuzzy))) = 2 * (8 * n)

(***************************************************************************)
(* pofile.py: read_po and write_po.  A PO file is the sequence of its      *)
(* lines, a line a record of its leading keyword and its fields.  In this  *)
(* part a str is a sequence over Chars, as for normalize.                  *)
(***************************************************************************)
MaxPoMessages == 2

\* ord() of the characters of Chars and of the file names
Ord(c) ==
    CASE c = TAB -> 9 [] c = NL -> 10 [] c = CR -> 13 [] c = " " -> 32
      [] c = QUOTE -> 34 [] c = BSL -> 92 [] c = "a" -> 97 [] c = "f" -> 102
      [] c = "n" -> 110

OrdSeq(s) == [k \in 1..Len(s) |-> Ord(s[k])]

\* A catalog message with the attributes write_po reads.  locations is a
\* sequence of <<filename, lineno>> with filename a sequence over Chars.
PoMessage(id, string, locations, flags, auto, user, previous_id, obsolete) ==
    [id |-> id, string |-> string, context |-> PyNone, flags |-> flags,
     locations |-> locations, auto_comments |-> auto, user_comments |-> user,
     previous_id |-> previous_id, obsolete |-> obsolete]

\* Message.__lt__ on messages whose strs are sequences over Chars
PoMessageLess(m1, m2) == SeqLess(OrdSeq(SingularId(m1)), OrdSeq(SingularId(m2)))

RECURSIVE LocationsLess(_, _)
\* Python's < on two lists of (filename, lineno) tuples
LocationsLess(a, b) ==
    IF b = <<>> THEN FALSE
    ELSE IF a = <<>> THEN TRUE
    ELSE IF Head(a) # Head(b)
         THEN \/ SeqLess(OrdSeq(Head(a)[1]), OrdSeq(Head(b)[1]))
              \/ Head(a)[1] = Head(b)[1] /\ Head(a)[2] < Head(b)[2]
    ELSE LocationsLess(Tail(a), Tail(b))

RECURSIVE InsertPoMessage(_, _, _)
InsertPoMessage(sorted, m, by_file) ==
    IF sorted = <<>> THEN <<m>>
    ELSE IF (IF by_file THEN LocationsLess(m.locations, Head(sorted).locations)
             ELSE PoMessageLess(m, Head(sorted)))
         THEN <<m>> \o sorted
         ELSE <<Head(sorted)>> \o InsertPoMessage(Tail(sorted), m, by_file)

RECURSIVE SortPoMessages(_, _)
\* messages.sort() and messages.sort(key=lambda m: m.locations): stable
SortPoMessages(ms, by_file) ==
    IF ms = <<>> THEN <<>>
    ELSE InsertPoMessage(SortPoMessages(SubSeq(ms, 1, Len(ms) - 1), by_file),
                         ms[Len(ms)], by_file)

\* PoFileError(message, catalog, line, lineno): the attributes a handler
\* reads.  No statement of pofile.py raises it.
PoFileError(line, lineno) ==
    [t |-> "exc", v |-> "PoFileError", line |-> line, lineno |-> lineno]

\* PoFileParser(catalog, ignore_obsolete, abort_invalid): __init__ sets its
\* five attributes and calls self._reset_message_state(), a method the
\* class does not define: AttributeError.
PoFileParser(catalog, ignore_obsolete, abort_invalid) == PyExc("AttributeError")

\* read_po(fileobj, ignore_obsolete=..., abort_invalid=...) on the lines of
\* fileobj: the catalog, or the exception raised.
read_po(lines, ignore_obsolete, abort_invalid) ==
    LET catalog == NewCatalog
        parser == PoFileParser(catalog, ignore_obsolete, abort_invalid)
    IN IF IsExc(parser) THEN parser ELSE parser.catalog

\* What write_po has written so far and the exception that stopped it, if
\* any.
Wrote(out) == [out |-> out, exc |-> PyNone]
Line(acc, line) == IF acc.exc # PyNone THEN acc ELSE [acc EXCEPT !.out = Append(@, line)]
Raise(acc, name) == IF acc.exc # PyNone THEN acc ELSE [acc EXCEPT !.exc = PyExc(name)]

\* write_comment(comment, prefix): with a width it names textwrap, which
\* pofile.py does not import: NameError.
write_comment(acc, comment, prefix, width) ==
    IF width > 0 THEN Raise(acc, "NameError")
    ELSE Line(acc, [k |-> IF prefix = "." THEN "#." ELSE "#", text |-> comment])

RECURSIVE WriteComments(_, _, _, _)
WriteComments(acc, comments, prefix, width) ==
    IF comments = <<>> THEN acc
    ELSE WriteComments(write_comment(acc, Head(comments), prefix, width),
                       Tail(comments), prefix, width)

RECURSIVE WriteLocations(_, _, _)
WriteLocations(acc, locations, include_lineno) ==
    IF locations = <<>> THEN acc
    ELSE WriteLocations(
             Line(acc, [k |-> "#:", filename |-> Head(locations)[1],
                        lineno |-> IF include_lineno THEN PyInt(Head(locations)[2])
                                   ELSE PyNone]),
             Tail(locations), include_lineno)

\* 'keyword {}\n'.format(normalize(value, width=width)): a tuple has neither
\* splitlines nor replace, so normalize raises AttributeError on it.
WriteNormalized(acc, keyword, value, width) ==
    IF value.t = "tuple" THEN Raise(acc, "AttributeError")
    ELSE Line(acc, [k |-> keyword, text |-> normalize(value.v, <<>>, width)])

RECURSIVE WriteMsgstrs(_, _, _, _)
\* for idx, string in enumerate(message.string): msgstr[idx]
WriteMsgstrs(acc, strings, idx, width) ==
    IF strings = <<>> THEN acc
    ELSE WriteMsgstrs(
             Line(acc, [k |-> "msgstr[]", idx |-> idx,
                        text |-> normalize(Head(strings), <<>>, width)]),
             Tail(strings), idx + 1, width)

\* write_entry(message, plural)
write_entry(acc, message, plural, o) ==
    LET a1 == IF ~o.no_location
              THEN WriteLocations(acc, message.locations, o.include_lineno) ELSE acc
        a2 == IF message.flags # {} THEN Line(a1, [k |-> "#,", flags |-> message.flags])
              ELSE a1
        a3 == WriteComments(a2, message.auto_comments, ".", o.width)
        a4 == WriteComments(a3, message.user_comments, "", o.width)
        a5 == IF o.include_previous
              THEN Line(a4, [k |-> "#| msgid",
                             text |-> IF message.previous_id.t = "tuple"
                                      THEN message.previous_id.v[1]
                                      ELSE message.previous_id.v])
              ELSE a4
        a6 == WriteNormalized(a5, "msgid", message.id, o.width)
        a7 == IF plural
              THEN WriteMsgstrs(
                       WriteNormalized(a6, "msgid_plural", PyStr(message.id.v[2]), o.width),
                       message.string.v, 0, o.width)
              ELSE WriteNormalized(a6, "msgstr", message.string, o.width)
    IN Line(a7, [k |-> "blank"])

RECURSIVE WriteActive(_, _, _)
\* The first loop of write_po over messages.
WriteActive(acc, todo, o) ==
    IF todo = <<>> THEN acc
    ELSE LET message == Head(todo)
         IN IF message.id.v = <<>> \/ (o.ignore_obsolete /\ message.obsolete)
            THEN WriteActive(acc, Tail(todo), o)
            ELSE WriteActive(write_entry(acc, message, message.id.t = "tuple", o),
                             Tail(todo), o)

RECURSIVE WriteObsolete(_, _, _)
\* The second loop of write_po over messages.
WriteObsolete(acc, todo, o) ==
    IF todo = <<>> THEN acc
    ELSE IF Head(todo).obsolete
         THEN WriteObsolete(write_entry(acc, Head(todo), FALSE, o), Tail(todo), o)
         ELSE WriteObsolete(acc, Tail(todo), o)

RECURSIVE WriteHeaderLines(_, _)
WriteHeaderLines(acc, headers) ==
    IF headers = <<>> THEN acc
    ELSE WriteHeaderLines(Line(acc, [k |-> "raw", text |-> Head(headers)]), Tail(headers))

\* write_po(fileobj, catalog, ...): the lines written to fileobj and the
\* exception raised, if any.  o holds the keyword arguments.
write_po(catalog, o) ==
    LET messages == IF o.sort_output THEN SortPoMessages(catalog.messages, FALSE)
                    ELSE IF o.sort_by_file THEN SortPoMessages(catalog.messages, TRUE)
                    ELSE catalog.messages
        a1 == IF ~o.omit_header
              THEN Line(WriteHeaderLines(
                            Line(Line(Wrote(<<>>), [k |-> "msgid", text |-> <<QUOTE, QUOTE>>]),
                                 [k |-> "msgstr", text |-> <<QUOTE, QUOTE>>]),
                            SplitLines(catalog.header_comment, FALSE, <<>>)),
                        [k |-> "blank"])
              ELSE Wrote(<<>>)
        a2 == WriteActive(a1, messages, o)
    IN IF ~o.ignore_obsolete THEN WriteObsolete(a2, messages, o) ELSE a2

(***************************************************************************)
(* PO codec: read a text, write a catalog, read the written text back      *)
(***************************************************************************)
PoFile1 == <<<<"f">>, 1>>
PoFile2 == <<<<"a">>, 2>>

PmSimple ==
    PoMessage(PyStr(<<"a">>), PyStr(<<"n">>), <<PoFile1>>, {}, <<>>, <<>>, PyStr(<<>>), FALSE)
PmFuzzy ==
    PoMessage(PyStr(<<"n">>), PyStr(<<>>), <<PoFile2, PoFile1>>, {"fuzzy"},
              <<<<"n">>>>, <<<<"a">>>>, PyStr(<<"a">>), FALSE)
PmPlural ==
    PoMessage(PyTuple(<<<<"a", " ", "a">>, <<"n">>>>), PyTuple(<<<<"a">>, <<"n">>>>),
              <<PoFile2>>, {}, <<>>, <<>>, PyTuple(<<<<"a">>, <<"n">>>>), FALSE)
PmObsolete ==
    PoMessage(PyStr(<<"a", "n">>), PyStr(<<"a", NL>>), <<>>, {}, <<>>, <<>>, PyStr(<<>>), TRUE)
PmHeader ==
    PoMessage(PyStr(<<>>), PyStr(<<"a">>), <<>>, {"fuzzy"}, <<>>, <<>>, PyStr(<<>>), FALSE)
PoMessagePool == {PmSimple, PmFuzzy, PmPlural, PmObsolete, PmHeader}

RECURSIVE PoMessageListsUpTo(_)
PoMessageListsUpTo(n) ==
    IF n = 0 THEN {<<>>}
    ELSE LET shorter == PoMessageListsUpTo(n - 1)
         IN shorter \cup UNION {{Append(ms, m) : m \in PoMessagePool \ SeqRange(ms)} :
                                    ms \in {x \in shorter : Len(x) = n - 1}}

\* The keyword arguments of write_po; width 0 stands for None.
PoOptions ==
    [width : {0, MaxWidth}, no_location : BOOLEAN, omit_header : BOOLEAN,
     sort_output : BOOLEAN, sort_by_file : BOOLEAN, ignore_obsolete : BOOLEAN,
     include_previous : BOOLEAN, include_lineno : BOOLEAN]

\* Valid PO texts to read: entries of a msgid and a msgstr line, some with
\* a location comment, each closed by a blank line.
PoEntry(id, string, located) ==
    (IF located THEN <<[k |-> "#:", filename |-> <<"f">>, lineno |-> PyInt(1)]>> ELSE <<>>)
    \o <<[k |-> "msgid", text |-> <<QUOTE>> \o id \o <<QUOTE>>],
         [k |-> "msgstr", text |-> <<QUOTE>> \o string \o <<QUOTE>>],
         [k |-> "blank"]>>
PoEntries ==
    {PoEntry(id, string, located) :
        id \in {<<"a">>, <<"n">>}, string \in {<<>>, <<"a">>}, located \in BOOLEAN}
PoTexts == PoEntries \cup {e1 \o e2 : e1 \in PoEntries, e2 \in PoEntries}

\* Texts with a blank line where no msgstr is open: before the first entry
\* and after the blank line that closes one.
PoBlankTexts ==
    {<<[k |-> "blank"]>>}
    \cup {<<[k |-> "blank"]>> \o e : e \in PoEntries}
    \cup {e \o <<[k |-> "blank"]>> : e \in PoEntries}

\* Lines that are malformed where the texts below hold them: a msgstr whose
\* quote is not closed, and a string continuing no keyword.
PoBadLines ==
    {[k |-> "msgstr", text |-> <<QUOTE, "a">>], [k |-> "string", text |-> <<QUOTE, "a", QUOTE>>]}
PoInvalidTexts ==
    {e1 \o <<bad>> \o e2 : e1 \in PoEntries \cup {<<>>}, e2 \in PoEntries, bad \in PoBadLines}

\* Entries with a msgctxt line, a msgid_plural line, both or neither.
PoKeyEntry(context, id, plural) ==
    (IF context # PyNone
     THEN <<[k |-> "msgctxt", text |-> <<QUOTE>> \o context.v \o <<QUOTE>>]>> ELSE <<>>)
    \o <<[k |-> "msgid", text |-> <<QUOTE>> \o id \o <<QUOTE>>]>>
    \o (IF plural # PyNone
        THEN <<[k |-> "msgid_plural", text |-> <<QUOTE>> \o plural.v \o <<QUOTE>>],
               [k |-> "msgstr[]", idx |-> 0, text |-> <<QUOTE, "a", QUOTE>>],
               [k |-> "msgstr[]", idx |-> 1, text |-> <<QUOTE, "n", QUOTE>>]>>
        ELSE <<[k |-> "msgstr", text |-> <<QUOTE, "a", QUOTE>>]>>)
    \o <<[k |-> "blank"]>>
PoContexts == {PyNone, PyStr(<<"a">>), PyStr(<<"n">>)}
PoPlurals == {PyNone, PyStr(<<"n", "n">>)}
PoKeyTexts ==
    {PoKeyEntry(context, id, plural) :
        context \in PoContexts, id \in {<<"a">>, <<"n">>}, plural \in PoPlurals}

\* Texts whose last entry is closed by the end of the text, not by a blank
\* line.
Unclosed(entry) == SubSeq(entry, 1, Len(entry) - 1)
PoUnclosedTexts ==
    {Unclosed(e) : e \in PoEntries} \cup {e1 \o Unclosed(e2) : e1 \in PoEntries, e2 \in PoEntries}

\* Texts with a colon in what follows the leading token of a line: in the
\* value of a keyword line, in a continuation string and in a comment.
COLON == ":"
PoColonValues == {<<COLON>>, <<"a", COLON, " ", "n">>}
PoColonTexts ==
    {<<[k |-> "msgid", text |-> <<QUOTE>> \o id \o <<QUOTE>>],
       [k |-> "msgstr", text |-> <<QUOTE>> \o string \o <<QUOTE>>]>>
     \o more \o <<[k |-> "blank"]>> :
        id \in PoColonValues \cup {<<"a">>}, string \in PoColonValues \cup {<<"n">>},
        more \in {<<>>, <<[k |-> "string", text |-> <<QUOTE, COLON, QUOTE>>]>>}}
    \cup {<<[k |-> "#", text |-> comment]>> \o e :
              comment \in {<<"#", " ", "a", COLON>>, <<"#", " ", "a">>}, e \in PoEntries}

PoInputs ==
    PoTexts \cup PoBlankTexts \cup PoInvalidTexts \cup PoKeyTexts \cup PoUnclosedTexts
    \cup PoColonTexts

PfStart == [pc |-> "start", text |-> <<>>, abort_invalid |-> FALSE, catalog |-> PyNone,
            options |-> PyNone, read1 |-> PyNone, written |-> PyNone, read2 |-> PyNone]

PfInit == pf = PfStart /\ pl = Idle /\ ps = Idle /\ mo = Idle /\ ld = Idle /\ ck = Idle /\ lc = Idle

\* catalog = read_po(fileobj, ignore_obsolete=..., abort_invalid=...)
ReadPo ==
    /\ pf.pc = "start"
    /\ \E text \in PoInputs, ignore_obsolete \in BOOLEAN, abort_invalid \in BOOLEAN :
          pf' = [pf EXCEPT !.pc = "read", !.text = text, !.abort_invalid = abort_invalid,
                           !.read1 = read_po(text, ignore_obsolete, abort_invalid)]
    /\ UNCHANGED <<pl, ps, mo, ld, ck, lc>>

\* write_po(fileobj, catalog, ...) of the catalog read, or of one built
\* with catalog.add
WritePo ==
    /\ \/ pf.pc = "start"
       \/ pf.pc = "read" /\ ~IsExc(pf.read1)
    /\ \E ms \in PoMessageListsUpTo(MaxPoMessages), o \in PoOptions :
          LET catalog == IF pf.pc = "read" THEN pf.read1 ELSE AddAll(NewCatalog, ms)
          IN pf' = [pf EXCEPT !.pc = "written", !.catalog = catalog, !.options = o,
                              !.written = write_po(catalog, o)]
    /\ UNCHANGED <<pl, ps, mo, ld, ck, lc>>

\* read_po of the text write_po wrote
ReadBack ==
    /\ pf.pc = "written"
    /\ pf.written.exc = PyNone
    /\ pf' = [pf EXCEPT !.pc = "readback", !.read2 = read_po(pf.written.out, FALSE, FALSE)]
    /\ UNCHANGED <<pl, ps, mo, ld, ck, lc>>

PfNext == ReadPo \/ WritePo \/ ReadBack

SpecPoFile == PfInit /\ [][PfNext]_vars

(***************************************************************************)
(* The PO format as the parser is to read it: comments and keywords        *)
(* accumulate in a pending message, a blank line with a msgstr open        *)
(* finalizes it.                                                           *)
(***************************************************************************)
Quoted(text) == Len(text) >= 2 /\ text[1] = QUOTE /\ text[Len(text)] = QUOTE
Unquote(text) == SubSeq(text, 2, Len(text) - 1)

NoPending ==
    [open |-> "none", id |-> <<>>, string |-> <<>>, locations |-> <<>>, context |-> PyNone,
     plural |-> PyNone, strings |-> <<>>, user_comments |-> <<>>]

\* A line is malformed when its quotes are not closed or its keyword cannot
\* follow what is open.
Malformed(line, open) ==
    CASE line.k \in {"blank", "#:", "#"} -> FALSE
      [] line.k = "msgctxt" -> ~Quoted(line.text) \/ open # "none"
      [] line.k = "msgid" -> ~Quoted(line.text) \/ open = "msgid"
      [] line.k = "msgid_plural" -> ~Quoted(line.text) \/ open # "msgid"
      [] line.k = "msgstr" -> ~Quoted(line.text) \/ open # "msgid"
      [] line.k = "msgstr[]" -> ~Quoted(line.text) \/ open \notin {"msgid_plural", "msgstr"}
      [] line.k = "string" -> ~Quoted(line.text) \/ open = "none"
      [] OTHER -> TRUE

Feed(p, line) ==
    CASE line.k = "#:" -> [p EXCEPT !.locations = Append(@, <<line.filename, line.lineno.v>>)]
      [] line.k = "#" -> [p EXCEPT !.user_comments = Append(@, LStrip(Tail(line.text), {" "}))]
      [] line.k = "msgctxt" -> [p EXCEPT !.open = "msgctxt", !.context = PyStr(Unquote(line.text))]
      [] line.k = "msgid" -> [p EXCEPT !.open = "msgid", !.id = Unquote(line.text)]
      [] line.k = "msgid_plural" ->
           [p EXCEPT !.open = "msgid_plural", !.plural = PyStr(Unquote(line.text))]
      [] line.k = "msgstr" -> [p EXCEPT !.open = "msgstr", !.string = Unquote(line.text)]
      [] line.k = "msgstr[]" ->
           [p EXCEPT !.open = "msgstr", !.strings = Append(@, Unquote(line.text))]
      [] line.k = "string" ->
           IF p.open = "msgid" THEN [p EXCEPT !.id = @ \o Unquote(line.text)]
           ELSE IF p.open = "msgctxt"
           THEN [p EXCEPT !.context = PyStr(@.v \o Unquote(line.text))]
           ELSE IF p.open = "msgid_plural"
           THEN [p EXCEPT !.plural = PyStr(@.v \o Unquote(line.text))]
           ELSE IF p.strings # <<>>
           THEN [p EXCEPT !.strings[Len(p.strings)] = @ \o Unquote(line.text)]
           ELSE [p EXCEPT !.string = @ \o Unquote(line.text)]

PendingMessage(p) ==
    [PoMessage(IF p.plural = PyNone THEN PyStr(p.id) ELSE PyTuple(<<p.id, p.plural.v>>),
               IF p.plural = PyNone THEN PyStr(p.string) ELSE PyTuple(p.strings),
               p.locations, {}, <<>>, p.user_comments, PyStr(<<>>), FALSE)
        EXCEPT !.context = p.context]

RECURSIVE ParseFrom(_, _, _, _, _)
\* The catalog after lines n.. of the text, or the PoFileError of the first
\* malformed line when abort_invalid.  The end of the text finalizes a
\* message whose msgstr is open.
ParseFrom(lines, n, p, catalog, abort_invalid) ==
    IF n > Len(lines)
    THEN (IF p.open = "msgstr" THEN CatalogAdd(catalog, PendingMessage(p)) ELSE catalog)
    ELSE LET line == lines[n]
         IN IF Malformed(line, p.open)
            THEN (IF abort_invalid THEN PoFileError(line, n)
                  ELSE ParseFrom(lines, n + 1, p, catalog, abort_invalid))
            ELSE IF line.k = "blank"
                 THEN (IF p.open = "msgstr"
                       THEN ParseFrom(lines, n + 1, NoPending,
                                      CatalogAdd(catalog, PendingMessage(p)), abort_invalid)
                       ELSE ParseFrom(lines, n + 1, p, catalog, abort_invalid))
                 ELSE ParseFrom(lines, n + 1, Feed(p, line), catalog, abort_invalid)

Parsed(lines, abort_invalid) == ParseFrom(lines, 1, NoPending, NewCatalog, abort_invalid)

WellFormedPo(lines) == Parsed(lines, TRUE).t = "Catalog"

RECURSIVE Finalizations(_, _, _)
\* The number of finalizations of a well-formed text: its blank lines met
\* with a msgstr open, and its end if one is open there.
Finalizations(lines, n, open) ==
    IF n > Len(lines) THEN (IF open = "msgstr" THEN 1 ELSE 0)
    ELSE IF lines[n].k = "blank"
         THEN (IF open = "msgstr" THEN 1 ELSE 0) + Finalizations(lines, n + 1, "none")
         ELSE Finalizations(lines, n + 1,
                            IF lines[n].k \in {"msgid", "msgstr"} THEN lines[n].k
                            ELSE IF lines[n].k = "msgstr[]" THEN "msgstr" ELSE open)

\* C6: reading a valid PO text, writing the catalog read and reading that
\* output again gives a catalog equal to the first: read_po yields a
\* catalog, and what write_po writes of a catalog reads back as that
\* catalog (same messages, locations, flags and comments).
C6_PoRoundTrip ==
    /\ pf.pc = "read" /\ WellFormedPo(pf.text) => pf.read1.t = "Catalog"
    /\ pf.pc = "readback" =>
           /\ pf.read2.t = "Catalog"
           /\ pf.read2.messages = pf.catalog.messages

\* C18: a blank line read while a msgstr is open finalizes the pending
\* message and a blank line read otherwise adds nothing: after read_po of a
\* well-formed text the catalog holds the message of each entry, built of
\* the msgid, msgstr and locations read since the previous finalization and
\* added in that order, one per blank line that closed a msgstr (an entry
\* repeating a key replaces the message of that key).
C18_BlankLineFinalizes ==
    pf.pc = "read" /\ WellFormedPo(pf.text) =>
        /\ pf.read1.t = "Catalog"
        /\ pf.read1.messages = Parsed(pf.text, pf.abort_invalid).messages
        /\ Len(pf.read1.messages) <= Finalizations(pf.text, 1, "none")

\* C19: on a text with a malformed line read_po with abort_invalid raises
\* PoFileError carrying the first such line and its line number, and without
\* abort_invalid returns the catalog of the other lines.
C19_MalformedLine ==
    pf.pc = "read" /\ ~WellFormedPo(pf.text) =>
        IF pf.abort_invalid
        THEN LET first == Parsed(pf.text, TRUE).lineno
             IN pf.read1 = PoFileError(pf.text[first], first)
        ELSE pf.read1 = Parsed(pf.text, FALSE)

\* C27: the id of a message the parser adds is the msgid string when the
\* entry has no msgid_plural, and the pair (msgid, msgid_plural) when it has
\* one; a msgctxt is the message's context and no part of the id.
C27_IdAndContext ==
    pf.pc = "read" =>
        \A context \in PoContexts, id \in {<<"a">>, <<"n">>}, plural \in PoPlurals :
            pf.text = PoKeyEntry(context, id, plural) =>
                /\ pf.read1.t = "Catalog"
                /\ Len(pf.read1.messages) = 1
                /\ pf.read1.messages[1].id =
                       (IF plural = PyNone THEN PyStr(id) ELSE PyTuple(<<id, plural.v>>))
                /\ pf.read1.messages[1].context = context

\* The message of an entry made by PoEntry.
EntryMessage(id, string, located) ==
    PoMessage(PyStr(id), PyStr(string), IF located THEN <<PoFile1>> ELSE <<>>,
              {}, <<>>, <<>>, PyStr(<<>>), FALSE)
EntryFields == {<<id, string, located>> :
                   id \in {<<"a">>, <<"n">>}, string \in {<<>>, <<"a">>}, located \in BOOLEAN}

\* C28: the parser adds each entry of the text exactly once.  Of a text of
\* one or two entries (of different msgids) whose last entry is closed by a
\* blank line or by the end of the text, the catalog holds one message per
\* entry, in order, each built of the lines of its own entry alone.
C28_EachEntryOnce ==
    pf.pc = "read" =>
        \A a \in EntryFields, b \in EntryFields, closed \in BOOLEAN :
            LET ea == PoEntry(a[1], a[2], a[3])
                eb == PoEntry(b[1], b[2], b[3])
                Last(e) == IF closed THEN e ELSE Unclosed(e)
            IN /\ pf.text = Last(ea) =>
                      /\ pf.read1.t = "Catalog"
                      /\ pf.read1.messages = <<EntryMessage(a[1], a[2], a[3])>>
               /\ (pf.text = ea \o Last(eb) /\ a[1] # b[1]) =>
                      /\ pf.read1.t = "Catalog"
                      /\ pf.read1.messages =
                             <<EntryMessage(a[1], a[2], a[3]), EntryMessage(b[1], b[2], b[3])>>

\* C29: a line is handled by what it starts with, whatever follows: of a
\* text with colons in the values of its keyword lines, in a continuation
\* string or in a comment, the parser reads the messages it reads of any
\* text, the colons kept in ids, strings and comments.
C29_LeadingTokenOnly ==
    (pf.pc = "read" /\ pf.text \in PoColonTexts) =>
        /\ pf.read1.t = "Catalog"
        /\ pf.read1.messages = Parsed(pf.text, TRUE).messages

RECURSIVE EntriesOf(_, _)
\* The entries of the messages ms, each as write_entry renders it.
EntriesOf(ms, o) ==
    IF ms = <<>> THEN <<>>
    ELSE write_entry(Wrote(<<>>), Head(ms), Head(ms).id.t = "tuple", o).out
         \o EntriesOf(Tail(ms), o)

IsActive(m) == ~m.obsolete /\ m.id.v # <<>>
IsObsolete(m) == m.obsolete

\* The orders a sort may give the messages ms.
Orderings(ms) == {p \in [1..Len(ms) -> SeqRange(ms)] : SeqRange(p) = SeqRange(ms)}

\* The lines of out after its first blank line.
AfterFirstBlank(out) ==
    LET n == CHOOSE i \in 1..Len(out) :
                 out[i].k = "blank" /\ \A j \in 1..(i - 1) : out[j].k # "blank"
    IN SubSeq(out, n + 1, Len(out))

\* C20: what write_po writes is the header block (msgid "" and msgstr "" up
\* to a blank line) unless omit_header, then the entries of the active
\* messages, then those of the obsolete messages unless ignore_obsolete, and
\* nothing else; without sort_output and sort_by_file both groups are in
\* catalog insertion order.
C20_HeaderActiveObsolete ==
    pf.pc = "written" /\ pf.written.exc = PyNone =>
        LET o == pf.options
            out == pf.written.out
            ms == pf.catalog.messages
            active == SelectSeq(ms, IsActive)
            obsolete == IF o.ignore_obsolete THEN <<>> ELSE SelectSeq(ms, IsObsolete)
        IN /\ ~o.omit_header =>
                  /\ Len(out) >= 3
                  /\ out[1] = [k |-> "msgid", text |-> <<QUOTE, QUOTE>>]
                  /\ out[2] = [k |-> "msgstr", text |-> <<QUOTE, QUOTE>>]
           /\ LET body == IF o.omit_header THEN out ELSE AfterFirstBlank(out)
              IN IF o.sort_output \/ o.sort_by_file
                 THEN \E a \in Orderings(active), b \in Orderings(obsolete) :
                          body = EntriesOf(a, o) \o EntriesOf(b, o)
                 ELSE body = EntriesOf(active, o) \o EntriesOf(obsolete, o)

(***************************************************************************)
(* MO codec: read_mo on damaged buffers                                    *)
(***************************************************************************)
RECURSIVE BlobOf(_, _)
\* The strings of column i of pairs, each followed by a NUL byte.
BlobOf(pairs, i) ==
    IF pairs = <<>> THEN <<>> ELSE Head(pairs)[i] \o <<0>> \o BlobOf(Tail(pairs), i)

RECURSIVE TableOf(_, _, _, _)
\* The (length, offset) table of column i, its first string at byte at.
TableOf(pairs, i, at, order) ==
    IF pairs = <<>> THEN <<>>
    ELSE Pack32(Len(Head(pairs)[i]), order) \o Pack32(at, order)
         \o TableOf(Tail(pairs), i, at + Len(Head(pairs)[i]) + 1, order)

\* A file in the format of the GNU gettext manual holding pairs of
\* (original, translation) bytes.
WellFormedMo(pairs, order) ==
    LET n == Len(pairs)
        keys == BlobOf(pairs, 1)
    IN (IF order = "little" THEN LE_MAGIC ELSE BE_MAGIC)
       \o PackAll(<<0, n, 28, 28 + 8 * n, 0, 0>>, order)
       \o TableOf(pairs, 1, 28 + 16 * n, order)
       \o TableOf(pairs, 2, 28 + 16 * n + Len(keys), order)
       \o keys \o BlobOf(pairs, 2)

\* The file the damaged buffers are made from: the metadata entry and foo.
BasePairs == <<<<<<>>, StrHeader>>, <<StrFoo, StrVoh>>>>
BaseMo(order) == WellFormedMo(BasePairs, order)

\* buf with the 32-bit field at byte offset at set to x
WithField(buf, at, x, order) ==
    Slice(buf, 0, at) \o Pack32(x, order) \o Slice(buf, at + 4, Len(buf))

\* The buffers read: the intact file, every proper prefix of it, the file
\* (and prefixes of it) with a foreign magic number, with version 1, and
\* with the length of a table entry raised beyond the end of the file.
MoBuffersOf(order) ==
    LET base == BaseMo(order)
        n == Len(BasePairs)
    IN {Slice(base, 0, k) : k \in 0..Len(base)}
       \cup {Slice(<<1>> \o Tail(base), 0, k) : k \in {4, 12, 20, Len(base)}}
       \cup {Slice(WithField(base, 4, v, order), 0, k) : v \in {1, 65536}, k \in {20, Len(base)}}
       \cup {WithField(base, 28 + 8 * e, Len(base), order) : e \in 0..(2 * n - 1)}
       \cup {WithField(base, 28 + 8 * e + 4, Len(base) + 1, order) : e \in 0..(2 * n - 1)}
MoBuffers == MoBuffersOf("little") \cup MoBuffersOf("big")

MrInit ==
    \E buf \in MoBuffers :
        /\ mo = [pc |-> "buffer", buf |-> buf, read |-> PyNone]
        /\ pl = Idle /\ ps = Idle /\ pf = Idle /\ ld = Idle /\ ck = Idle /\ lc = Idle

\* read_mo(fileobj) on a file holding the buffer
ReadMoBuffer ==
    /\ mo.pc = "buffer"
    /\ mo' = [mo EXCEPT !.pc = "read", !.read = read_mo(mo.buf)]
    /\ UNCHANGED <<pl, ps, pf, ld, ck, lc>>

MrNext == ReadMoBuffer

SpecMoRead == MrInit /\ [][MrNext]_vars

\* What makes a buffer structurally corrupt; none of this models code.
MagicOrder(buf) ==
    IF Slice(buf, 0, 4) = LE_MAGIC THEN "little"
    ELSE IF Slice(buf, 0, 4) = BE_MAGIC THEN "big" ELSE "none"
BadMagic(buf) == Len(buf) >= 4 /\ MagicOrder(buf) = "none"
HeaderOk(buf) == Len(buf) >= 20 /\ MagicOrder(buf) # "none"
BadVersion(buf) == HeaderOk(buf) /\ Field(buf, 4, MagicOrder(buf)) # 0
\* The byte offsets of the table entries the header announces.
EntryOffsets(buf) ==
    LET order == MagicOrder(buf)
        count == Field(buf, 8, order)
    IN {Field(buf, 12, order) + 8 * k : k \in 0..(count - 1)}
       \cup {Field(buf, 16, order) + 8 * k : k \in 0..(count - 1)}
\* The buffer ends before the header fields or before the end of an entry.
Truncated(buf) ==
    \/ Len(buf) < 4
    \/ MagicOrder(buf) # "none" /\ Len(buf) < 20
    \/ HeaderOk(buf) /\ \E at \in EntryOffsets(buf) : at + 8 > Len(buf)
\* Some entry's offset plus length exceeds the buffer length.
Overrun(buf) ==
    HeaderOk(buf) /\ \E at \in EntryOffsets(buf) :
        /\ at + 8 <= Len(buf)
        /\ Field(buf, at, MagicOrder(buf)) + Field(buf, at + 4, MagicOrder(buf)) > Len(buf)
Corrupt(buf) == BadMagic(buf) \/ BadVersion(buf) \/ Truncated(buf) \/ Overrun(buf)

RECURSIVE FirstFault(_, _)
\* The fault of the first damaged pair of table entries, in table order.
FirstFault(buf, k) ==
    LET order == MagicOrder(buf)
        m == Field(buf, 12, order) + 8 * k
        t == Field(buf, 16, order) + 8 * k
        Over(at) == Field(buf, at, order) + Field(buf, at + 4, order) > Len(buf)
    IN IF k >= Field(buf, 8, order) THEN "none"
       ELSE IF m + 8 > Len(buf) \/ t + 8 > Len(buf) THEN "struct.error"
       ELSE IF Over(m) \/ Over(t) THEN "IOError"
       ELSE FirstFault(buf, k + 1)

MoOriginals ==
    {StrFoo, StrCtx \o <<ChEot>> \o StrFoo, StrCtx \o <<ChEot>> \o StrEAcute,
     StrBar \o <<ChNul>> \o StrBaz, StrCtx \o <<ChEot>> \o StrBar \o <<ChNul>> \o StrBaz,
     StrFuz}
\* The translations: one form, two forms, three forms.
MoTranslations ==
    {StrVoh, StrEAcute, StrBar \o <<ChNul>> \o StrBaaz,
     StrBar \o <<ChNul>> \o StrBaaz \o <<ChNul>> \o StrVoh}

\* A well-formed file of one entry, after the metadata entry or alone.
MeInit ==
    \E orig \in MoOriginals, trans \in MoTranslations, order \in {"little", "big"},
       metadata \in BOOLEAN :
        /\ mo = [pc |-> "buffer",
                 buf |-> WellFormedMo((IF metadata THEN <<<<<<>>, StrHeader>>>> ELSE <<>>)
                                      \o <<<<Encode(orig), Encode(trans)>>>>, order),
                 read |-> PyNone, orig |-> orig, trans |-> trans]
        /\ pl = Idle /\ ps = Idle /\ pf = Idle /\ ld = Idle /\ ck = Idle /\ lc = Idle

SpecMoEntries == MeInit /\ [][MrNext]_vars

\* The entry the catalog is to gain for an original and its translation.
DecodedEntry(orig, trans) ==
    LET parts == IF ChEot \in SeqRange(orig) THEN SplitFirst(orig, ChEot, <<>>)
                 ELSE <<PyNone, orig>>
        context == IF ChEot \in SeqRange(orig) THEN PyStr(parts[1]) ELSE PyNone
        msgid == parts[2]
    IN IF ChNul \in SeqRange(trans)
       THEN Message(PyTuple(<<msgid, msgid \o SufPlural>>),
                    PyTuple(SplitOn(trans, ChNul, <<>>)), context, {})
       ELSE Message(PyStr(msgid), PyStr(trans), context, {})

\* C26: read_mo decodes a non-metadata entry as follows.  If the original
\* holds a \x04, the part before it is the context and the part after it
\* the msgid.  If the translation holds \x00 bytes, the catalog gains one
\* entry keyed (msgid, msgid + '_plural') holding the forms in order;
\* otherwise it gains one singular entry with that msgid and translation.
C26_DecodesEntry ==
    mo.pc = "read" =>
        /\ ~IsExc(mo.read)
        /\ mo.read.messages = <<DecodedEntry(mo.orig, mo.trans)>>

(***************************************************************************)
(* localedata.py: dictionaries as objects on a heap                        *)
(*                                                                         *)
(* A heap is a sequence of objects, the address of an object its index.    *)
(* Objects are dict (insertion-ordered items) and LocaleDataDict (the      *)
(* addresses of _data and base).  Values stored under a key are str, list, *)
(* None, Alias, an (Alias, dict) tuple, or a reference Ref(a) to an        *)
(* object.  Operations return R(h, r): the heap afterwards and the value   *)
(* returned or the exception raised.                                       *)
(***************************************************************************)
Ref(a) == [t |-> "ref", v |-> a]
PyList(v) == [t |-> "list", v |-> v]
DictObj(items) == [t |-> "dict", items |-> items]
R(h, r) == [h |-> h, r |-> r]
New(h, obj) == R(Append(h, obj), Ref(Len(h) + 1))

\* class Alias: __init__ keeps the keys.
Alias(keys) == [t |-> "Alias", v |-> keys]

\* Alias.resolve(data): the body is `pass`.
AliasResolve(alias, data) == PyNone

\* LocaleDataDict.__init__(data, base): base defaults to data.
LocaleDataDict(data, base) ==
    [t |-> "LocaleDataDict", data |-> data, base |-> IF base = 0 THEN data ELSE base]

\* isinstance(val, dict) and isinstance(val, (Mutable)Mapping)
IsDict(h, val) == val.t = "ref" /\ h[val.v].t = "dict"
IsMapping(val) == val.t = "ref"

\* dict primitives on the items of a dict
HasKey(items, key) == \E i \in 1..Len(items) : items[i][1] = key
Lookup(items, key) == items[CHOOSE i \in 1..Len(items) : items[i][1] = key][2]
Put(items, key, val) ==
    IF HasKey(items, key)
    THEN [i \in 1..Len(items) |-> IF items[i][1] = key THEN <<key, val>> ELSE items[i]]
    ELSE Append(items, <<key, val>>)
KeysOf(items) == [i \in 1..Len(items) |-> items[i][1]]

RECURSIVE SetItem(_, _, _, _)
\* obj[key] = val: dict.__setitem__, or LocaleDataDict.__setitem__ which
\* assigns to self._data[key].
SetItem(h, a, key, val) ==
    IF h[a].t = "dict" THEN [h EXCEPT ![a].items = Put(@, key, val)]
    ELSE SetItem(h, h[a].data, key, val)

RECURSIVE GetItem(_, _, _)
\* obj[key]: dict.__getitem__, or LocaleDataDict.__getitem__.
GetItem(h, a, key) ==
    IF h[a].t = "dict"
    THEN IF HasKey(h[a].items, key) THEN R(h, Lookup(h[a].items, key))
         ELSE R(h, PyExc("KeyError"))
    ELSE LET got == GetItem(h, h[a].data, key)
             orig == got.r
         IN IF IsExc(orig) THEN got
            ELSE IF orig.t = "Alias"
            THEN LET val == AliasResolve(orig, h[a].base)
                 IN R(SetItem(got.h, h[a].data, key, val), val)
            ELSE IF orig.t = "tuple"
            THEN \* alias.resolve(self.base).copy() on the None resolve returns
                 R(got.h, PyExc("AttributeError"))
            ELSE IF IsDict(got.h, orig)
            THEN LET n == New(got.h, LocaleDataDict(orig.v, h[a].base))
                 IN R(SetItem(n.h, h[a].data, key, n.r), n.r)
            ELSE got

\* key in obj: dict.__contains__, or Mapping.__contains__ which tries
\* self[key] and answers False on KeyError.
Contains(h, a, key) ==
    IF h[a].t = "dict" THEN R(h, PyBool(HasKey(h[a].items, key)))
    ELSE LET got == GetItem(h, a, key)
         IN IF got.r.t = "exc" /\ got.r.v = "KeyError" THEN R(got.h, PyBool(FALSE))
            ELSE IF IsExc(got.r) THEN got
            ELSE R(got.h, PyBool(TRUE))

\* obj.get(key, default): dict.get, or Mapping.get which tries self[key].
Get(h, a, key, default) ==
    LET got == GetItem(h, a, key)
    IN IF got.r.t = "exc" /\ got.r.v = "KeyError" THEN R(got.h, default) ELSE got

RECURSIVE Keys(_, _)
\* iter(obj): the keys of the dict, for a LocaleDataDict iter(self._data)
Keys(h, a) == IF h[a].t = "dict" THEN KeysOf(h[a].items) ELSE Keys(h, h[a].data)

RECURSIVE merge(_, _, _)
RECURSIVE MergeLoop(_, _, _, _)
\* merge(dict1, dict2) on the objects at addresses dict1 and dict2
merge(h, dict1, dict2) == MergeLoop(h, dict1, dict2, Keys(h, dict2))

\* `for key, value in dict2.items()` with the keys in keys still to come
MergeLoop(h, dict1, dict2, keys) ==
    IF keys = <<>> THEN R(h, PyNone)
    ELSE LET key == Head(keys)
             item == GetItem(h, dict2, key)
             value == item.r
             has == Contains(item.h, dict1, key)
             cur == GetItem(has.h, dict1, key)
             again == GetItem(cur.h, dict1, key)
             fresh == New(has.h, DictObj(<<>>))
             target == GetItem(SetItem(fresh.h, dict1, key, fresh.r), dict1, key)
             step == IF IsExc(value) THEN item
                     ELSE IF IsExc(has.r) THEN has
                     ELSE IF has.r.v
                     THEN IF IsExc(cur.r) THEN cur
                          ELSE IF IsMapping(cur.r) /\ IsMapping(value)
                          THEN merge(again.h, again.r.v, value.v)
                          ELSE R(SetItem(cur.h, dict1, key, value), PyNone)
                     ELSE IF IsMapping(value)
                     THEN merge(target.h, target.r.v, value.v)
                     ELSE R(SetItem(has.h, dict1, key, value), PyNone)
         IN IF IsExc(step.r) THEN step ELSE MergeLoop(step.h, dict1, dict2, Tail(keys))

(***************************************************************************)
(* Locale data as written down: trees, and their objects on the heap       *)
(***************************************************************************)
\* A tree is a value whose dictionaries are given inline as
\* [t |-> "dict", v |-> items].
Leaf(s) == PyStr(s)
Tree(items) == [t |-> "dict", v |-> items]

RECURSIVE Alloc(_, _)
RECURSIVE AllocItems(_, _, _)
\* The objects pickle.load or a dict display builds for a tree: the heap
\* afterwards and the value.
Alloc(h, tree) ==
    IF tree.t = "dict"
    THEN LET done == AllocItems(h, tree.v, <<>>) IN New(done.h, DictObj(done.r))
    ELSE IF tree.t = "tuple"
    THEN LET others == Alloc(h, tree.v[2])
         IN R(others.h, PyTuple(<<tree.v[1], others.r>>))
    ELSE R(h, tree)
AllocItems(h, todo, acc) ==
    IF todo = <<>> THEN R(h, acc)
    ELSE LET sub == Alloc(h, Head(todo)[2])
         IN AllocItems(sub.h, Tail(todo), Append(acc, <<Head(todo)[1], sub.r>>))

RECURSIVE View(_, _)
\* What a value holds, whichever objects hold it: a dictionary as the set
\* of its (key, value) pairs, a LocaleDataDict as the dictionary it wraps.
View(h, val) ==
    IF val.t = "ref"
    THEN IF h[val.v].t = "dict"
         THEN LET items == h[val.v].items
              IN [t |-> "dict",
                  v |-> {<<items[i][1], View(h, items[i][2])>> : i \in 1..Len(items)}]
         ELSE View(h, Ref(h[val.v].data))
    ELSE IF val.t = "tuple" THEN PyTuple(<<val.v[1], View(h, val.v[2])>>)
    ELSE IF val.t = "None" THEN [t |-> "None", v |-> 0]
    ELSE val

RECURSIVE TreeView(_)
\* The same for a tree.
TreeView(tree) ==
    IF tree.t = "dict"
    THEN [t |-> "dict", v |-> {<<tree.v[i][1], TreeView(tree.v[i][2])>> : i \in 1..Len(tree.v)}]
    ELSE IF tree.t = "tuple" THEN PyTuple(<<tree.v[1], TreeView(tree.v[2])>>)
    ELSE tree

RECURSIVE Dicts(_, _)
\* The addresses of the dict objects reachable from a value.
Dicts(h, val) ==
    IF val.t = "ref"
    THEN IF h[val.v].t = "dict"
         THEN {val.v} \cup UNION {Dicts(h, h[val.v].items[i][2]) : i \in 1..Len(h[val.v].items)}
         ELSE Dicts(h, Ref(h[val.v].data))
    ELSE IF val.t = "tuple" THEN Dicts(h, val.v[2])
    ELSE {}

(***************************************************************************)
(* merge(dict1, dict2) on two dictionaries                                 *)
(***************************************************************************)
\* The dictionaries merged: up to two keys, values strs and dictionaries.
MergeLeaves == {Leaf("v1"), Leaf("v2")}
MergeInner == {Tree(<<>>), Tree(<<<<"a", Leaf("v1")>>>>), Tree(<<<<"a", Leaf("v2")>>, <<"b", Leaf("v1")>>>>), Tree(<<<<"b", Tree(<<<<"a", Leaf("v1")>>>>)>>>>)}
MergeValues == MergeLeaves \cup MergeInner
MergeTrees ==
    {Tree(<<>>)} \cup {Tree(<<<<"a", x>>>>) : x \in MergeValues}
    \cup {Tree(<<<<"a", x>>, <<"b", y>>>>) : x \in MergeValues, y \in MergeValues}

MgInit ==
    \E tree1 \in MergeTrees, tree2 \in MergeTrees :
        LET a1 == Alloc(<<>>, tree1)
            a2 == Alloc(a1.h, tree2)
        IN /\ ld = [pc |-> "start", tree1 |-> tree1, tree2 |-> tree2, heap |-> a2.h,
                    dict1 |-> a1.r.v, dict2 |-> a2.r.v, result |-> PyNone]
           /\ pl = Idle /\ ps = Idle /\ pf = Idle /\ mo = Idle /\ ck = Idle /\ lc = Idle

\* merge(dict1, dict2)
Merge ==
    /\ ld.pc = "start"
    /\ LET m == merge(ld.heap, ld.dict1, ld.dict2)
       IN ld' = [ld EXCEPT !.pc = "merged", !.heap = m.h, !.result = m.r]
    /\ UNCHANGED <<pl, ps, pf, mo, ck, lc>>

MgNext == Merge

SpecMerge == MgInit /\ [][MgNext]_vars

\* What the documentation asks of merge; none of this models code.
KeysV(d) == {p[1] : p \in d.v}
ValV(d, k) == (CHOOSE p \in d.v : p[1] = k)[2]
RECURSIVE DeepMerge(_, _)
\* d2 merged over d1: keys of both, dictionaries under a common key merged
\* key by key, otherwise the value of d2 where it has one.
DeepMerge(d1, d2) ==
    [t |-> "dict",
     v |-> {<<k, IF k \notin KeysV(d2) THEN ValV(d1, k)
                 ELSE IF k \in KeysV(d1) /\ ValV(d1, k).t = "dict" /\ ValV(d2, k).t = "dict"
                 THEN DeepMerge(ValV(d1, k), ValV(d2, k))
                 ELSE ValV(d2, k)>> : k \in KeysV(d1) \cup KeysV(d2)}]

\* C15: merge(dict1, dict2) deep-merges dict2 over dict1 (every key of dict2
\* is in dict1, mappings under a common key are merged key by key, on any
\* other conflict dict2 wins, keys only in dict1 keep their value), leaves
\* dict2 unchanged, and copies the nested mappings it takes from dict2:
\* dict1 and dict2 share no dictionary object afterwards.
C15_MergeDeepCopies ==
    ld.pc = "merged" =>
        /\ ld.result = PyNone
        /\ View(ld.heap, Ref(ld.dict1)) = DeepMerge(TreeView(ld.tree1), TreeView(ld.tree2))
        /\ View(ld.heap, Ref(ld.dict2)) = TreeView(ld.tree2)
        /\ Dicts(ld.heap, Ref(ld.dict1)) \cap Dicts(ld.heap, Ref(ld.dict2)) = {}

\* The same without the last conjunct: the contents after the merge.
C15_MergeContents ==
    ld.pc = "merged" =>
        /\ ld.result = PyNone
        /\ View(ld.heap, Ref(ld.dict1)) = DeepMerge(TreeView(ld.tree1), TreeView(ld.tree2))
        /\ View(ld.heap, Ref(ld.dict2)) = TreeView(ld.tree2)

(***************************************************************************)
(* LocaleDataDict: item access on data that holds aliases                  *)
(***************************************************************************)
MaxAccess == 3

\* The data wrapped: aliases to a dictionary, to a leaf and to another
\* alias, an alias with overrides, and an alias below the top level.
AliasTrees ==
    {Tree(<<<<"x", Alias(<<"y">>)>>, <<"y", Tree(<<<<"a", Leaf("v1")>>>>)>>>>),
     Tree(<<<<"x", PyTuple(<<Alias(<<"y">>), Tree(<<<<"b", Leaf("v2")>>>>)>>)>>, <<"y", Tree(<<<<"a", Leaf("v1")>>>>)>>>>),
     Tree(<<<<"x", Alias(<<"y", "a">>)>>, <<"y", Tree(<<<<"a", Leaf("v1")>>>>)>>>>),
     Tree(<<<<"x", Alias(<<"z">>)>>, <<"z", Alias(<<"y">>)>>, <<"y", Leaf("v1")>>>>),
     Tree(<<<<"x", Leaf("v1")>>, <<"y", Tree(<<<<"a", Alias(<<"x">>)>>>>)>>>>)}
AccessKeys == {"x", "y", "z"}

\* d = LocaleDataDict(data) for freshly built data
AlInit ==
    \E tree \in AliasTrees :
        LET data == Alloc(<<>>, tree)
            d == New(data.h, LocaleDataDict(data.r.v, 0))
        IN /\ ld = [pc |-> "dict", tree |-> tree, heap |-> d.h, data |-> data.r.v,
                    d |-> d.r.v, log |-> <<>>]
           /\ pl = Idle /\ ps = Idle /\ pf = Idle /\ mo = Idle /\ ck = Idle /\ lc = Idle

\* d[key]: the log keeps the key and what the access returned or raised
Access ==
    /\ ld.pc = "dict"
    /\ Len(ld.log) < MaxAccess
    /\ \E key \in AccessKeys :
           LET got == GetItem(ld.heap, ld.d, key)
           IN ld' = [ld EXCEPT !.heap = got.h, !.log = Append(@, <<key, got.r>>)]
    /\ UNCHANGED <<pl, ps, pf, mo, ck, lc>>

AlNext == Access

SpecAlias == AlInit /\ [][AlNext]_vars

\* What alias resolution is to yield; none of this models code.
RECURSIVE WalkTree(_, _)
\* The value the key path leads to from tree.
WalkTree(tree, keys) ==
    IF keys = <<>> THEN tree ELSE WalkTree(Lookup(tree.v, Head(keys)), Tail(keys))
RECURSIVE Resolved(_, _)
\* The resolved value of val in the data base, as a view: an alias is
\* followed from the root of base, overrides are merged on top.
Resolved(base, val) ==
    IF val.t = "Alias" THEN Resolved(base, WalkTree(base, val.v))
    ELSE IF val.t = "tuple" THEN DeepMerge(Resolved(base, val.v[1]), TreeView(val.v[2]))
    ELSE TreeView(val)
IsAliased(val) == val.t \in {"Alias", "tuple"}
SameView(a, b) == a.t = b.t /\ a = b

\* C17: after the first d[key] on a key whose stored value is an Alias or an
\* (Alias, overrides) pair the access has returned the resolved value, the
\* stored value is that resolved value and no longer an alias, and every
\* later d[key] returns that same value.
C17_AliasWriteThrough ==
    ld.pc = "dict" =>
        \A i \in 1..Len(ld.log) :
            LET key == ld.log[i][1]
                got == ld.log[i][2]
            IN (HasKey(ld.tree.v, key) /\ IsAliased(Lookup(ld.tree.v, key))) =>
                   LET want == Resolved(ld.tree, Lookup(ld.tree.v, key))
                       stored == Lookup(ld.heap[ld.data].items, key)
                   IN /\ got.t # "exc"
                      /\ SameView(View(ld.heap, got), want)
                      /\ ~IsAliased(stored)
                      /\ SameView(View(ld.heap, stored), want)
                      /\ \A j \in i..Len(ld.log) :
                             ld.log[j][1] = key =>
                                 (ld.log[j][2].t = got.t /\ ld.log[j][2] = got)

(***************************************************************************)
(* localedata.py: load, called from several threads                        *)
(*                                                                         *)
(* ld.store is the locale-data directory (per identifier the pickled data  *)
(* or no file), ld.cache is _cache (per identifier the address of the      *)
(* cached dict, 0 for none), ld.lock the owner of _cache_lock (0 when      *)
(* free), ld.reads counts the files opened per identifier.  A thread holds *)
(* the stack of its load frames and the outcomes of its finished calls.    *)
(* A step is one statement of load.  SpecLoad takes merge as one step,     *)
(* SpecLoadSteps an iteration of its loop at a time.                       *)
(***************************************************************************)
NumThreads == 2
MaxCalls == 2
\* the depth of nested load calls at which the interpreter gives up
\* (sys.getrecursionlimit() in the program)
MaxDepth == 3

Threads == 1..NumThreads
Names == {"root", "en", "zz"}
NoFile == PyNone

RootData == Tree(<<<<"a", Leaf("v1")>>, <<"m", Tree(<<<<"x", Leaf("v1")>>, <<"y", Leaf("v1")>>>>)>>>>)
EnFallback == Tree(<<<<"fallback", PyList(<<PyStr("root")>>)>>, <<"a", Leaf("v2")>>, <<"m", Tree(<<<<"x", Leaf("v2")>>>>)>>>>)
EnAlias == Tree(<<<<"alias", Tree(<<<<"target", PyStr("root")>>>>)>>, <<"a", Leaf("v2")>>>>)
EnPlain == Tree(<<<<"a", Leaf("v2")>>>>)
ZzFallback == Tree(<<<<"fallback", PyList(<<PyStr("root")>>)>>, <<"a", Leaf("v3")>>, <<"b", Leaf("v3")>>>>)

\* The directories: en inherits from root by a fallback list, by an alias
\* target, or not at all; zz has no file.
Stores == {[n \in Names |-> IF n = "root" THEN RootData ELSE IF n = "en" THEN en ELSE NoFile] : en \in {EnFallback, EnAlias, EnPlain}}
\* The directory in which en and zz both inherit from root.
SiblingStore == [n \in Names |-> IF n = "root" THEN RootData ELSE IF n = "en" THEN EnFallback ELSE ZzFallback]

NewThread == [stack |-> <<>>, calls |-> 0, results |-> <<>>]
Frame(name, merge_inherited) ==
    [name |-> name, merge_inherited |-> merge_inherited, pc |-> "resolve",
     data |-> PyNone, chain |-> <<>>, merged |-> PyNone, todo |-> PyNone, size |-> 0]

LdStart(store) ==
    /\ ld = [pc |-> "load", store |-> store, heap |-> <<>>,
             cache |-> [n \in Names |-> 0], lock |-> 0,
             reads |-> [n \in Names |-> 0], th |-> [t \in Threads |-> NewThread]]
    /\ pl = Idle /\ ps = Idle /\ pf = Idle /\ mo = Idle /\ ck = Idle /\ lc = Idle

LdInit == \E store \in Stores : LdStart(store)

Top(t) == ld.th[t].stack[Len(ld.th[t].stack)]
At(t, pc) == ld.pc = "load" /\ ld.th[t].stack # <<>> /\ Top(t).pc = pc
\* the thread's stack with its top frame replaced
WithTop(t, f) == [ld.th[t].stack EXCEPT ![Len(ld.th[t].stack)] = f]
\* an exception leaves every frame of the thread; the call made by the
\* thread ends with it
Raised(t, exc) ==
    [ld.th[t] EXCEPT !.stack = <<>>, !.results = Append(@, <<ld.th[t].stack[1].name, exc>>)]

RECURSIVE CallsMade(_)
\* the number of load calls the threads 1..t have made
CallsMade(t) == IF t = 0 THEN 0 ELSE ld.th[t].calls + CallsMade(t - 1)

\* a thread calls load(name, merge_inherited); the threads make MaxCalls
\* calls between them
LoadCall(t) ==
    /\ ld.pc = "load"
    /\ ld.th[t].stack = <<>>
    /\ CallsMade(NumThreads) < MaxCalls
    /\ \E name \in Names, merge_inherited \in BOOLEAN :
           ld' = [ld EXCEPT !.th[t].stack = <<Frame(name, merge_inherited)>>,
                            !.th[t].calls = @ + 1]
    /\ UNCHANGED <<pl, ps, pf, mo, ck, lc>>

\* filename = resolve_locale_filename(name)
Resolve(t) ==
    /\ At(t, "resolve")
    /\ IF ld.store[Top(t).name] = NoFile
       THEN ld' = [ld EXCEPT !.th[t] = Raised(t, PyExc("IOError"))]
       ELSE ld' = [ld EXCEPT !.th[t].stack = WithTop(t, [Top(t) EXCEPT !.pc = "acquire"])]
    /\ UNCHANGED <<pl, ps, pf, mo, ck, lc>>

\* with _cache_lock that does not wait for the lock
AcquireWithoutLock(t) ==
    /\ At(t, "acquire")
    /\ ld' = [ld EXCEPT !.th[t].stack = WithTop(t, [Top(t) EXCEPT !.pc = "check"])]
    /\ UNCHANGED <<pl, ps, pf, mo, ck, lc>>

\* with _cache_lock: the thread waits until the lock is free or its own
Acquire(t) ==
    /\ At(t, "acquire")
    /\ ld.lock \in {0, t}
    /\ ld' = [ld EXCEPT !.lock = t,
                        !.th[t].stack = WithTop(t, [Top(t) EXCEPT !.pc = "check"])]
    /\ UNCHANGED <<pl, ps, pf, mo, ck, lc>>

\* data = _cache.get(name); if data is None
Check(t) ==
    /\ At(t, "check")
    /\ LET a == ld.cache[Top(t).name]
       IN IF a = 0
          THEN ld' = [ld EXCEPT !.th[t].stack = WithTop(t, [Top(t) EXCEPT !.pc = "read"])]
          ELSE ld' = [ld EXCEPT !.th[t].stack =
                          WithTop(t, [Top(t) EXCEPT !.pc = "release", !.data = Ref(a)])]
    /\ UNCHANGED <<pl, ps, pf, mo, ck, lc>>

\* with open(filename, 'rb') as fileobj: data = pickle.load(fileobj)
Read(t) ==
    /\ At(t, "read")
    /\ LET name == Top(t).name
           loaded == Alloc(ld.heap, ld.store[name])
       IN ld' = [ld EXCEPT !.heap = loaded.h, !.reads[name] = @ + 1,
                           !.th[t].stack =
                               WithTop(t, [Top(t) EXCEPT !.pc = "insert", !.data = loaded.r])]
    /\ UNCHANGED <<pl, ps, pf, mo, ck, lc>>

\* _cache[name] = data
CacheInsert(t) ==
    /\ At(t, "insert")
    /\ ld' = [ld EXCEPT !.cache[Top(t).name] = Top(t).data.v,
                        !.th[t].stack = WithTop(t, [Top(t) EXCEPT !.pc = "release"])]
    /\ UNCHANGED <<pl, ps, pf, mo, ck, lc>>

\* the end of the with block
Release(t) ==
    /\ At(t, "release")
    /\ ld' = [ld EXCEPT !.lock = 0,
                        !.th[t].stack = WithTop(t, [Top(t) EXCEPT !.pc = "inherit"])]
    /\ UNCHANGED <<pl, ps, pf, mo, ck, lc>>

\* data.get('alias', {}).get('target') for the dict at address a
AliasTarget(h, a) ==
    IF ~HasKey(h[a].items, "alias") THEN R(h, PyNone)
    ELSE LET alias == Lookup(h[a].items, "alias")
         IN IF IsMapping(alias) THEN Get(h, alias.v, "target", PyNone)
            ELSE R(h, PyExc("AttributeError"))

\* data.get('fallback', []) for the dict at address a
Fallback(h, a) ==
    IF HasKey(h[a].items, "fallback") THEN Lookup(h[a].items, "fallback").v ELSE <<>>

\* if merge_inherited: for alias in chain([...], ...): the chain is built
Inherit(t) ==
    /\ At(t, "inherit")
    /\ IF ~Top(t).merge_inherited
       THEN ld' = [ld EXCEPT !.th[t].stack = WithTop(t, [Top(t) EXCEPT !.pc = "return"])]
       ELSE LET target == AliasTarget(ld.heap, Top(t).data.v)
            IN IF IsExc(target.r)
               THEN ld' = [ld EXCEPT !.heap = target.h, !.th[t] = Raised(t, target.r)]
               ELSE ld' = [ld EXCEPT !.heap = target.h,
                               !.th[t].stack =
                                   WithTop(t, [Top(t) EXCEPT !.pc = "loop",
                                       !.chain = <<target.r>> \o Fallback(ld.heap, Top(t).data.v)])]
    /\ UNCHANGED <<pl, ps, pf, mo, ck, lc>>

\* bool(alias)
Falsy(alias) == alias.t = "None" \/ (alias.t = "str" /\ alias.v = "")

\* the next alias of the chain: `if alias: merged = load(alias)` enters
\* load, or the loop ends
Loop(t) ==
    /\ At(t, "loop")
    /\ LET f == Top(t)
       IN IF f.chain = <<>>
          THEN ld' = [ld EXCEPT !.th[t].stack = WithTop(t, [f EXCEPT !.pc = "return"])]
          ELSE IF Falsy(Head(f.chain))
          THEN ld' = [ld EXCEPT !.th[t].stack = WithTop(t, [f EXCEPT !.chain = Tail(@)])]
          ELSE IF Len(ld.th[t].stack) >= MaxDepth
          THEN ld' = [ld EXCEPT !.th[t] = Raised(t, PyExc("RecursionError"))]
          ELSE ld' = [ld EXCEPT !.th[t].stack =
                          Append(WithTop(t, [f EXCEPT !.pc = "merge", !.chain = Tail(@)]),
                                 Frame(Head(f.chain).v, TRUE))]
    /\ UNCHANGED <<pl, ps, pf, mo, ck, lc>>

\* return LocaleDataDict(data): to the caller's `merged = load(alias)`, or
\* to the thread
Return(t) ==
    /\ At(t, "return")
    /\ LET made == New(ld.heap, LocaleDataDict(Top(t).data.v, 0))
           stack == ld.th[t].stack
           n == Len(stack)
       IN IF n = 1
          THEN ld' = [ld EXCEPT !.heap = made.h, !.th[t].stack = <<>>,
                                !.th[t].results = Append(@, <<Top(t).name, made.r>>)]
          ELSE ld' = [ld EXCEPT !.heap = made.h,
                                !.th[t].stack = Append(SubSeq(stack, 1, n - 2),
                                                       [stack[n - 1] EXCEPT !.merged = made.r])]
    /\ UNCHANGED <<pl, ps, pf, mo, ck, lc>>

\* merge(merged, data); data = merged, as one step
MergeInherited(t) ==
    /\ At(t, "merge")
    /\ LET f == Top(t)
           m == merge(ld.heap, f.merged.v, f.data.v)
       IN IF IsExc(m.r)
          THEN ld' = [ld EXCEPT !.heap = m.h, !.th[t] = Raised(t, m.r)]
          ELSE ld' = [ld EXCEPT !.heap = m.h,
                                !.th[t].stack = WithTop(t, [f EXCEPT !.pc = "loop", !.data = f.merged])]
    /\ UNCHANGED <<pl, ps, pf, mo, ck, lc>>

LdCall(t) ==
    \/ LoadCall(t) \/ Resolve(t) \/ Acquire(t) \/ Check(t) \/ Read(t) \/ CacheInsert(t)
    \/ Release(t) \/ Inherit(t) \/ Loop(t) \/ Return(t)

LdNext == \E t \in Threads : LdCall(t) \/ MergeInherited(t)

SpecLoad == LdInit /\ [][LdNext]_vars

\* merge(merged, data); data = merged, an iteration at a time.  The merge
\* runs outside the lock and other threads run between its iterations: a
\* step is one iteration of `for key, value in dict2.items()`, todo the keys
\* still to come and size the length of dict2 when the iteration began (a
\* dict that changed size ends the iteration with RuntimeError).
MergeIteration(t) ==
    /\ At(t, "merge")
    /\ LET f == Top(t)
           keys == Keys(ld.heap, f.data.v)
           todo == IF f.todo = PyNone THEN keys ELSE f.todo.v
           m == MergeLoop(ld.heap, f.merged.v, f.data.v, <<Head(todo)>>)
           done == [f EXCEPT !.pc = "loop", !.data = f.merged, !.todo = PyNone, !.size = 0]
       IN IF f.todo # PyNone /\ Len(keys) # f.size
          THEN ld' = [ld EXCEPT !.th[t] = Raised(t, PyExc("RuntimeError"))]
          ELSE IF todo = <<>>
          THEN ld' = [ld EXCEPT !.th[t].stack = WithTop(t, done)]
          ELSE IF IsExc(m.r)
          THEN ld' = [ld EXCEPT !.heap = m.h, !.th[t] = Raised(t, m.r)]
          ELSE IF Tail(todo) = <<>>
          THEN ld' = [ld EXCEPT !.heap = m.h, !.th[t].stack = WithTop(t, done)]
          ELSE ld' = [ld EXCEPT !.heap = m.h,
                                !.th[t].stack =
                                    WithTop(t, [f EXCEPT !.todo = PyList(Tail(todo)),
                                                         !.size = Len(keys)])]
    /\ UNCHANGED <<pl, ps, pf, mo, ck, lc>>

LdStepInit == \E store \in Stores \cup {SiblingStore} : LdStart(store)

LdStepNext == \E t \in Threads : LdCall(t) \/ MergeIteration(t)

\* load with the threads interleaved between the iterations of merge
SpecLoadSteps == LdStepInit /\ [][LdStepNext]_vars

\* C13: however the threads' load calls interleave, the backing store is
\* read at most once for an identifier.
C13_SingleLoad == ld.pc = "load" => \A n \in Names : ld.reads[n] <= 1

\* Two threads load the same identifier at once: one has read the file and
\* holds the lock, the other waits for the lock.
C13_Witness ==
    /\ ld.pc = "load"
    /\ \E t \in Threads, u \in Threads :
           /\ t # u
           /\ At(t, "insert") /\ At(u, "acquire")
           /\ Top(t).name = Top(u).name
           /\ ld.reads[Top(t).name] = 1

\* The finished calls: thread, position, identifier and outcome.
Returned == {<<t, i>> : t \in Threads, i \in 1..MaxCalls}
Outcome(c) == ld.th[c[1]].results[c[2]]
HasReturned(c) == c[2] <= Len(ld.th[c[1]].results) /\ Outcome(c)[2].t = "ref"

\* C14: two requests for the same locale identifier return the same
\* dictionary object.
C14_SameObject ==
    ld.pc = "load" =>
        \A c \in Returned, d \in Returned :
            (HasReturned(c) /\ HasReturned(d) /\ Outcome(c)[1] = Outcome(d)[1])
                => Outcome(c)[2] = Outcome(d)[2]

\* C16: whichever loads run and in whatever order, the data cached for an
\* identifier (an ancestor or alias target in particular) stays as it was
\* cached: loading a child merges into a copy and leaves none of the
\* child's overrides in it.
C16_CachedDataUnchanged ==
    [][\A n \in Names :
           (ld.pc = "load" /\ ld.cache[n] # 0) =>
               /\ ld'.cache[n] = ld.cache[n]
               /\ View(ld'.heap, Ref(ld'.cache[n])) = View(ld.heap, Ref(ld.cache[n]))]_vars

\* The identifiers the data of a locale names as its sources: the alias
\* target, then the fallback list.
ParentsOf(tree) ==
    (IF HasKey(tree.v, "alias") /\ Lookup(tree.v, "alias").t = "dict"
        /\ HasKey(Lookup(tree.v, "alias").v, "target")
     THEN <<Lookup(Lookup(tree.v, "alias").v, "target").v>> ELSE <<>>)
    \o (IF HasKey(tree.v, "fallback")
        THEN [i \in 1..Len(Lookup(tree.v, "fallback").v) |-> Lookup(tree.v, "fallback").v[i].v]
        ELSE <<>>)

RECURSIVE MergedOver(_, _, _, _)
RECURSIVE FullyMerged(_, _, _)
\* own data laid over the fully merged data of each source in turn; PyNone
\* when a source has none
MergedOver(store, parents, own, depth) ==
    IF parents = <<>> THEN own
    ELSE LET base == FullyMerged(store, Head(parents), depth)
         IN IF base = PyNone THEN PyNone
            ELSE MergedOver(store, Tail(parents), DeepMerge(base, own), depth)
\* The data of the whole chain of an identifier in a directory: PyNone when
\* the identifier or a locale it inherits from has no file.
FullyMerged(store, name, depth) ==
    IF depth = 0 \/ store[name] = NoFile THEN PyNone
    ELSE MergedOver(store, ParentsOf(store[name]), TreeView(store[name]), depth - 1)

\* C24: a call load(name) that merges the inherited data ends in one of two
\* ways: it raises, or it returns the data of name merged over the data of
\* its whole chain; when name or a locale of the chain has no file it
\* raises.
C24_AllOrNothing ==
    [][\A t \in Threads :
           (/\ ld.pc = "load"
            /\ Len(ld'.th[t].results) > Len(ld.th[t].results)
            /\ ld.th[t].stack[1].merge_inherited)
               => LET out == ld'.th[t].results[Len(ld'.th[t].results)]
                      want == FullyMerged(ld.store, out[1], Cardinality(Names))
                  IN IF want = PyNone THEN IsExc(out[2])
                     ELSE out[2].t = "ref" => View(ld'.heap, out[2]) = want]_vars

\* a thread is between two iterations of merge(merged, data)
MidMerge(u) == At(u, "merge") /\ Top(u).todo # PyNone
\* the heap once the iterations the thread has still to run are done
MergeCompleted(u) == MergeLoop(ld.heap, Top(u).merged.v, Top(u).data.v, Top(u).todo.v).h

\* C25: while threads load concurrently, the data a thread has received
\* from load is never in a state in which only part of a merge has been
\* applied: whenever another thread is between two iterations of a merge,
\* the iterations still to come change nothing in it.
C25_NoHalfPopulated ==
    ld.pc = "load" =>
        \A c \in Returned, u \in Threads :
            (HasReturned(c) /\ c[1] # u /\ MidMerge(u))
                => View(MergeCompleted(u), Outcome(c)[2]) = View(ld.heap, Outcome(c)[2])

(***************************************************************************)
(* checkers.py: _validate_format.  A str is a sequence of one-character    *)
(* strings.                                                                *)
(***************************************************************************)
_string_format_compatibilities == {{"i", "d", "u"}, {"x", "X"}, {"f", "F", "g", "G"}}

\* parse_format(s): re.finditer compiles the pattern first.  Its group
\* `(?:` is never closed (the pattern ends `...[diouxXeEfFgGcrs%])|(.)`), so
\* re.compile raises re.error whatever s is.
parse_format(s) == PyExc("re.error")

\* are_compatible(a, b)
are_compatible(a, b) ==
    \/ a = b
    \/ \E compat \in _string_format_compatibilities : a \in compat /\ b \in compat

RECURSIVE CompareSpecs(_, _)
\* for (f_name, f_type), (a_name, a_type) in zip(format_specs, alternative_specs)
CompareSpecs(format_specs, alternative_specs) ==
    IF format_specs = <<>> \/ alternative_specs = <<>> THEN PyNone
    ELSE LET f == Head(format_specs)
             a == Head(alternative_specs)
         IN IF ~are_compatible(f[2], a[2]) THEN PyExc("TranslationError")
            ELSE IF f[1] # a[1] THEN PyExc("TranslationError")
            ELSE CompareSpecs(Tail(format_specs), Tail(alternative_specs))

\* _validate_format(format, alternative): None, or the exception raised
_validate_format(format, alternative) ==
    LET format_specs == parse_format(format)
        alternative_specs == parse_format(alternative)
    IN IF IsExc(format_specs) THEN format_specs
       ELSE IF IsExc(alternative_specs) THEN alternative_specs
       ELSE IF Len(format_specs) # Len(alternative_specs) THEN PyExc("TranslationError")
       ELSE CompareSpecs(format_specs, alternative_specs)

\* The format strings checked: up to MaxPlaceholders pieces, a piece a word
\* or a placeholder, positional or named.
MaxPlaceholders == 2
Named(name, type) == <<"%", "(">> \o name \o <<")", type>>
FormatPieces ==
    {<<"a", " ">>, <<"%", "i">>, <<"%", "d">>, <<"%", "s">>, <<"%", "x">>, <<"%", "f">>,
     Named(<<"n">>, "s"), Named(<<"n">>, "d"), Named(<<"a">>, "s")}
RECURSIVE FormatsUpTo(_)
FormatsUpTo(n) ==
    IF n = 0 THEN {<<>>}
    ELSE LET shorter == FormatsUpTo(n - 1)
         IN shorter \cup {f \o piece : f \in shorter, piece \in FormatPieces}
Formats == FormatsUpTo(MaxPlaceholders)

CkInit ==
    /\ ck = [pc |-> "start", format |-> <<>>, alternative |-> <<>>, result |-> PyNone]
    /\ pl = Idle /\ ps = Idle /\ pf = Idle /\ mo = Idle /\ ld = Idle /\ lc = Idle

\* _validate_format(format, alternative)
ValidateFormat ==
    /\ ck.pc = "start"
    /\ \E format \in Formats, alternative \in Formats :
           ck' = [pc |-> "checked", format |-> format, alternative |-> alternative,
                  result |-> _validate_format(format, alternative)]
    /\ UNCHANGED <<pl, ps, pf, mo, ld, lc>>

CkNext == ValidateFormat

SpecCheckers == CkInit /\ [][CkNext]_vars

(***************************************************************************)
(* What the documentation asks of _validate_format; none of this models    *)
(* code.                                                                   *)
(***************************************************************************)
RECURSIVE NameEnd(_, _)
\* The index of the first ")" of s at or after i.
NameEnd(s, i) == IF s[i] = ")" THEN i ELSE NameEnd(s, i + 1)

RECURSIVE Placeholders(_, _)
\* The placeholders of s from index i: <<name, type>>, name <<>> for a
\* positional one.
Placeholders(s, i) ==
    IF i > Len(s) THEN <<>>
    ELSE IF s[i] # "%" THEN Placeholders(s, i + 1)
    ELSE IF s[i + 1] = "("
         THEN LET e == NameEnd(s, i + 2)
              IN <<<<SubSeq(s, i + 2, e - 1), s[e + 1]>>>> \o Placeholders(s, e + 2)
         ELSE <<<<(<<>>), s[i + 1]>>>> \o Placeholders(s, i + 2)

\* The documented verdict: same count, same kind, same names, compatible
\* types.
SameClass(a, b) ==
    \/ a = b
    \/ \E class \in {{"i", "d", "u"}, {"x", "X"}, {"f", "F", "g", "G"}} : a \in class /\ b \in class
AllNamed(specs) == \A k \in 1..Len(specs) : specs[k][1] # <<>>
AllPositional(specs) == \A k \in 1..Len(specs) : specs[k][1] = <<>>
Matching(format, alternative) ==
    LET f == Placeholders(format, 1)
        a == Placeholders(alternative, 1)
    IN /\ Len(f) = Len(a)
       /\ \/ AllPositional(f) /\ AllPositional(a)
               /\ \A k \in 1..Len(f) : SameClass(f[k][2], a[k][2])
          \/ AllNamed(f) /\ AllNamed(a)
               /\ {f[k][1] : k \in 1..Len(f)} = {a[k][1] : k \in 1..Len(a)}
               /\ \A k \in 1..Len(f), j \in 1..Len(a) :
                      f[k][1] = a[j][1] => SameClass(f[k][2], a[j][2])

\* C21: _validate_format(format, alternative) returns None when the
\* placeholders of the two strings match in count, kind, name and type
\* class, and raises TranslationError otherwise.
C21_ValidateFormat ==
    ck.pc = "checked" =>
        IF Matching(ck.format, ck.alternative) THEN ck.result = PyNone
        ELSE ck.result = PyExc("TranslationError")

(***************************************************************************)
(* core.py: parse_locale, get_locale_identifier and Locale.parse.  A str   *)
(* is a sequence of one-character strings; a component of a locale is a    *)
(* PyStr or PyNone.                                                        *)
(***************************************************************************)
LowerLetters == <<"a", "b", "c", "d", "e", "f", "g", "h", "i", "j", "k", "l", "m", "n", "o", "p", "q", "r", "s", "t", "u", "v", "w", "x", "y", "z">>
UpperLetters == <<"A", "B", "C", "D", "E", "F", "G", "H", "I", "J", "K", "L", "M", "N", "O", "P", "Q", "R", "S", "T", "U", "V", "W", "X", "Y", "Z">>
Digits == {"0", "1", "2", "3", "4", "5", "6", "7", "8", "9"}

IsLower(c) == \E i \in 1..26 : LowerLetters[i] = c
IsUpper(c) == \E i \in 1..26 : UpperLetters[i] = c
LowerChar(c) == IF IsUpper(c) THEN LowerLetters[CHOOSE i \in 1..26 : UpperLetters[i] = c] ELSE c
UpperChar(c) == IF IsLower(c) THEN UpperLetters[CHOOSE i \in 1..26 : LowerLetters[i] = c] ELSE c

\* str.lower(), str.upper(), str.title(), str.isalpha(), str.isdigit()
Lower(s) == [k \in 1..Len(s) |-> LowerChar(s[k])]
Upper(s) == [k \in 1..Len(s) |-> UpperChar(s[k])]
Title(s) ==
    [k \in 1..Len(s) |->
        IF k = 1 \/ ~(IsLower(s[k - 1]) \/ IsUpper(s[k - 1])) THEN UpperChar(s[k])
        ELSE LowerChar(s[k])]
IsAlpha(s) == s # <<>> /\ \A k \in 1..Len(s) : IsLower(s[k]) \/ IsUpper(s[k])
IsDigit(s) == s # <<>> /\ \A k \in 1..Len(s) : s[k] \in Digits

RECURSIVE JoinStrs(_, _)
\* sep.join(strs)
JoinStrs(sep, strs) ==
    IF strs = <<>> THEN <<>>
    ELSE IF Len(strs) = 1 THEN strs[1]
    ELSE strs[1] \o sep \o JoinStrs(sep, Tail(strs))

\* The .dat files of the locale-data directory, by the name before ".dat".
LocaleFiles ==
    {<<"r", "o", "o", "t">>, <<"e", "n">>, <<"e", "n", "_", "U", "S">>,
     <<"e", "n", "_", "U", "S", "_", "P", "O", "S", "I", "X">>, <<"e", "n", "_", "1", "5", "0">>,
     <<"i", "t">>, <<"f", "i">>, <<"z", "h">>, <<"z", "h", "_", "H", "a", "n", "s">>,
     <<"z", "h", "_", "H", "a", "n", "s", "_", "U", "S">>, <<"d", "e">>,
     <<"d", "e", "_", "A", "T">>}

\* _windows_reserved_name_re.match(name)
WindowsReserved(name) ==
    LET n == Lower(name)
    IN \/ n \in {<<"c", "o", "n">>, <<"p", "r", "n">>, <<"a", "u", "x">>, <<"n", "u", "l">>}
       \/ /\ Len(n) = 4
          /\ SubSeq(n, 1, 3) \in {<<"c", "o", "m">>, <<"l", "p", "t">>}
          /\ n[4] \in Digits

\* localedata.exists(name): resolve_locale_filename finds the file or
\* raises IOError, which exists answers with False.
exists(name) ==
    LET n == IF WindowsReserved(name) THEN <<"_">> \o name ELSE name
    IN n \in LocaleFiles

\* get_global('likely_subtags') of babel/global.dat
likely_subtags == [territory \in {<<"A", "T">>} |-> <<"d", "e">>]

\* str.partition(sep): the part before the first sep and the part after it
Before(s, sep) == Head(SplitOn(s, sep, <<>>))
After(s, sep) == SubSeq(s, Len(Before(s, sep)) + 2, Len(s))

\* bool(x) of a component: None and '' are false
Given(x) == x.t = "str" /\ x.v # <<>>

\* parse_locale(identifier, sep): the tuple returned or the exception
parse_locale(identifier, sep) ==
    LET has_at == \E k \in 1..Len(identifier) : identifier[k] = "@"
        ident == IF has_at THEN Before(identifier, "@") ELSE identifier
        modifier == IF has_at THEN PyStr(After(identifier, "@")) ELSE PyNone
        parts0 == SplitOn(ident, sep, <<>>)
        lang == Lower(Head(parts0))
        parts1 == Tail(parts0)
        has_script == parts1 # <<>> /\ Len(parts1[1]) = 4 /\ IsAlpha(parts1[1])
        script == IF has_script THEN PyStr(Title(parts1[1])) ELSE PyNone
        parts2 == IF has_script THEN Tail(parts1) ELSE parts1
        has_territory ==
            /\ parts2 # <<>>
            /\ \/ Len(parts2[1]) = 2 /\ IsAlpha(parts2[1])
               \/ Len(parts2[1]) = 3 /\ IsDigit(parts2[1])
        territory == IF has_territory THEN PyStr(Upper(parts2[1])) ELSE PyNone
        parts3 == IF has_territory THEN Tail(parts2) ELSE parts2
        variant == IF parts3 # <<>> THEN PyStr(Upper(parts3[1])) ELSE PyNone
        parts4 == IF parts3 # <<>> THEN Tail(parts3) ELSE parts3
    IN IF ~IsAlpha(lang) THEN PyExc("ValueError")
       ELSE IF parts4 # <<>> THEN PyExc("ValueError")
       ELSE IF modifier = PyNone THEN PyTuple(<<PyStr(lang), territory, script, variant>>)
       ELSE PyTuple(<<PyStr(lang), territory, script, variant, modifier>>)

RECURSIVE IdentifierParts(_, _)
\* the loop of get_locale_identifier over tup[1:], parts the list so far
IdentifierParts(rest, parts) ==
    IF rest = <<>> THEN parts
    ELSE LET part == Head(rest)
         IN IF part # PyNone THEN IdentifierParts(Tail(rest), Append(parts, part))
            ELSE IF Len(parts) > 1 /\ parts[Len(parts)] # PyNone
            THEN IdentifierParts(Tail(rest), Append(parts, PyNone))
            ELSE IdentifierParts(Tail(rest), parts)

RECURSIVE StrsOfGiven(_)
\* filter(None, parts): the strs of the parts that are true
StrsOfGiven(parts) ==
    IF parts = <<>> THEN <<>>
    ELSE (IF Given(Head(parts)) THEN <<Head(parts).v>> ELSE <<>>) \o StrsOfGiven(Tail(parts))

\* get_locale_identifier(tup, sep) for a tuple of one to five components
get_locale_identifier(tup, sep) ==
    LET parts == IdentifierParts(Tail(tup), <<Head(tup)>>)
        first4 == SubSeq(parts, 1, IF Len(parts) < 4 THEN Len(parts) ELSE 4)
        identifier == JoinStrs(<<sep>>, StrsOfGiven(first4))
    IN IF Len(tup) = 5 /\ Given(tup[5]) THEN identifier \o <<"@">> \o tup[5].v
       ELSE identifier

\* Locale(language, territory, script, variant, modifier): the object, or
\* UnknownLocaleError when localedata has no file for str(self) up to "@"
Locale(language, territory, script, variant, modifier) ==
    LET identifier == get_locale_identifier(<<language, territory, script, variant, modifier>>, "_")
    IN IF ~exists(Before(identifier, "@")) THEN PyExc("UnknownLocaleError")
       ELSE [t |-> "Locale", language |-> language, territory |-> territory,
             script |-> script, variant |-> variant, modifier |-> modifier]

\* Locale._resolve_likely_subtags(language, territory, script)
ResolveLikelySubtags(language, territory, script) ==
    IF language = PyStr(<<"u", "n", "d">>) /\ Given(territory)
       /\ territory.v \in DOMAIN likely_subtags
    THEN LET likely == likely_subtags[territory.v]
         IN <<PyStr(Before(likely, "_")), territory, PyStr(After(likely, "_"))>>
    ELSE <<language, territory, script>>

\* Locale.parse(identifier, sep, resolve_likely_subtags) for a str
LocaleParse(identifier, sep, resolve_likely_subtags) ==
    LET parts == parse_locale(identifier, sep)
    IN IF IsExc(parts) THEN parts
       ELSE IF Len(parts.v) # 5 THEN PyExc("ValueError")
       ELSE LET r == IF resolve_likely_subtags
                     THEN ResolveLikelySubtags(parts.v[1], parts.v[2], parts.v[3])
                     ELSE <<parts.v[1], parts.v[2], parts.v[3]>>
            IN Locale(r[1], r[2], r[3], parts.v[4], parts.v[5])

\* The identifiers parsed: a language, then optionally a script, a
\* territory, a variant and a modifier, and the documentation's example of
\* an invalid identifier.
Seps == {"_", "-"}
LcLanguages == {<<"e", "n">>, <<"E", "N">>, <<"f", "i">>, <<"z", "h">>, <<"u", "n", "d">>, <<"e", "1">>}
LcScripts == {<<>>, <<"h", "a", "n", "s">>}
LcTerritories == {<<>>, <<"U", "S">>, <<"u", "s">>, <<"1", "5", "0">>, <<"A", "T">>}
LcVariants == {<<>>, <<"p", "o", "s", "i", "x">>}
LcModifiers == {PyNone, PyStr(<<>>), PyStr(<<"e", "u", "r", "o">>)}
Segments(language, script, territory, variant) ==
    <<language>> \o (IF script = <<>> THEN <<>> ELSE <<script>>)
    \o (IF territory = <<>> THEN <<>> ELSE <<territory>>)
    \o (IF variant = <<>> THEN <<>> ELSE <<variant>>)
Identifiers(sep) ==
    {JoinStrs(<<sep>>, Segments(l, s, t, v)) \o (IF m = PyNone THEN <<>> ELSE <<"@">> \o m.v) :
        l \in LcLanguages, s \in LcScripts, t \in LcTerritories, v \in LcVariants,
        m \in LcModifiers}
    \cup {JoinStrs(<<sep>>, <<<<"n", "o", "t">>, <<"a">>, <<"L", "O", "C", "A", "L", "E">>,
                             <<"S", "t", "r", "i", "n", "g">>>>)}

LcStart ==
    [pc |-> "start", identifier |-> <<>>, sep |-> "_", parsed |-> PyNone,
     locale |-> PyNone, joined |-> PyNone, reparsed |-> PyNone]

LcInit ==
    /\ lc = LcStart
    /\ pl = Idle /\ ps = Idle /\ pf = Idle /\ mo = Idle /\ ld = Idle /\ ck = Idle

\* parse_locale(identifier, sep)
ParseLocale ==
    /\ lc.pc = "start"
    /\ \E sep \in Seps : \E identifier \in Identifiers(sep) :
           lc' = [lc EXCEPT !.pc = "parsed", !.identifier = identifier, !.sep = sep,
                            !.parsed = parse_locale(identifier, sep)]
    /\ UNCHANGED <<pl, ps, pf, mo, ld, ck>>

\* Locale.parse(identifier, sep, resolve_likely_subtags)
ParseToLocale ==
    /\ lc.pc = "start"
    /\ \E sep \in Seps, resolve_likely_subtags \in BOOLEAN : \E identifier \in Identifiers(sep) :
           lc' = [lc EXCEPT !.pc = "located", !.identifier = identifier, !.sep = sep,
                            !.locale = LocaleParse(identifier, sep, resolve_likely_subtags)]
    /\ UNCHANGED <<pl, ps, pf, mo, ld, ck>>

\* get_locale_identifier(tup, sep) of the tuple parse_locale returned
GetLocaleIdentifier ==
    /\ lc.pc = "parsed"
    /\ ~IsExc(lc.parsed)
    /\ lc' = [lc EXCEPT !.pc = "joined",
                        !.joined = PyStr(get_locale_identifier(lc.parsed.v, lc.sep))]
    /\ UNCHANGED <<pl, ps, pf, mo, ld, ck>>

\* parse_locale of the identifier get_locale_identifier built
ParseAgain ==
    /\ lc.pc = "joined"
    /\ lc' = [lc EXCEPT !.pc = "reparsed", !.reparsed = parse_locale(lc.joined.v, lc.sep)]
    /\ UNCHANGED <<pl, ps, pf, mo, ld, ck>>

LcNext == ParseLocale \/ ParseToLocale \/ GetLocaleIdentifier \/ ParseAgain

SpecLocale == LcInit /\ [][LcNext]_vars

(***************************************************************************)
(* Properties of locale identifiers                                        *)
(***************************************************************************)
\* The five components of a tuple parse_locale returned, the modifier None
\* when the tuple has none or an empty one.
Component(tup, k) == IF k <= Len(tup) /\ Given(tup[k]) THEN tup[k] ELSE PyNone
Components(tup) == [k \in 1..5 |-> Component(tup, k)]

\* The name of the data file of a locale: language, script, territory and
\* variant joined by "_".
DataName(tup) == JoinStrs(<<"_">>, StrsOfGiven(<<tup[1], tup[3], tup[2], tup[4]>>))

\* C22: for an identifier parse_locale accepts and whose locale has a data
\* file, Locale.parse returns the Locale of the parsed components, the
\* modifier None when the identifier has none; it raises ValueError only
\* for an identifier parse_locale rejects and UnknownLocaleError only when
\* the locale has no data file.
C22_LocaleParse ==
    lc.pc = "located" =>
        LET p == parse_locale(lc.identifier, lc.sep)
        IN /\ (~IsExc(p) /\ p.v[1].v # <<"u", "n", "d">> /\ DataName(p.v) \in LocaleFiles) =>
                  /\ lc.locale.t = "Locale"
                  /\ <<lc.locale.language, lc.locale.territory, lc.locale.script,
                       lc.locale.variant>> = SubSeq(p.v, 1, 4)
                  /\ lc.locale.modifier = (IF Len(p.v) = 5 THEN p.v[5] ELSE PyNone)
           /\ lc.locale = PyExc("ValueError") => IsExc(p)
           /\ lc.locale = PyExc("UnknownLocaleError") =>
                  ~IsExc(p) /\ DataName(p.v) \notin LocaleFiles

\* The non-None components joined by the separator, the modifier after "@":
\* in the order of the tuple, or with the script before the territory as
\* parse_locale reads them.
JoinedAs(tup, sep, order) ==
    JoinStrs(<<sep>>, StrsOfGiven([k \in 1..4 |-> tup[order[k]]]))
    \o (IF Component(tup, 5) = PyNone THEN <<>> ELSE <<"@">> \o tup[5].v)

\* C23: get_locale_identifier of a tuple parse_locale returned is the
\* non-None components joined by the separator with the modifier after "@",
\* and parse_locale of that identifier returns the components of the tuple.
C23_IdentifierRoundTrip ==
    /\ lc.pc \in {"joined", "reparsed"} =>
           lc.joined.v \in {JoinedAs(lc.parsed.v, lc.sep, <<1, 2, 3, 4>>),
                            JoinedAs(lc.parsed.v, lc.sep, <<1, 3, 2, 4>>)}
    /\ lc.pc = "reparsed" =>
           /\ ~IsExc(lc.reparsed)
           /\ Components(lc.reparsed.v) = Components(lc.parsed.v)

====
